---- MODULE Spec2Model ----
(***************************************************************************)
(* Verification model of the geodetic levelling engine:                    *)
(*   - geodetic_tool/engine/adjustment_computations.py (numerical kernel)  *)
(*   - geodetic_tool/engine/least_squares.py (parametric / conditional)    *)
(*   - geodetic_tool/config/models.py (LevelingLine)                       *)
(*   - geodetic_tool/engine/height_calculator.py, line_adjustment.py       *)
(*   - geodetic_tool/engine/loop_detector.py (loops, double runs)          *)
(*   - geodetic_tool/engine/line_coordinator.py (merging of segments)     *)
(*   - geodetic_tool/config/israel_survey_regulations.py,                  *)
(*     settings_manager.py, validators/__init__.py (classes, settings)     *)
(*                                                                         *)
(* Numbers are exact rationals <<numerator, denominator>> (denominator > 0,*)
(* lowest terms); Python floats are modelled by exact arithmetic.          *)
(***************************************************************************)
EXTENDS Integers, Sequences, FiniteSets, TLC

VARIABLES
    \* LeastSquaresAdjuster.adjust: arguments, position and locals
    observations, fixed_points, approximate_heights, max_iterations, check_stability,
    pc, current_heights, iteration, loc, error, result,
    \* what the numerical kernel did in the call under way
    kernel_err, kernel_log,
    \* ConditionalAdjuster.adjust_loops: arguments, position and outcome
    lines, loops, cond_fixed, cond_pc, cond_loc, cond_error, cond_result,
    \* one LevelingLine and the operations applied to it
    line, line_error, corrections, adjustment_info, trail, totals_calculated, n_ops,
    \* a NetworkGraph / LoopAnalyzer, the calls made on it and what they returned
    net_lines, point_order, loop_max_size, loop_pc, found_loops, minimum_loops,
    double_runs, double_run_analysis,
    \* the user settings file, the last LevelingValidator constructed and the
    \* last call made on the settings or the validator class
    settings_file, validator, cfg_call,
    \* history: the name given to the last successful set_default_class since
    \* the last reset_to_defaults ("none" when there is none, "unknown" for a
    \* settings file found at start)
    last_set,
    \* a LineCoordinator: its lines, the list merged lines are added to, its
    \* merge history, the last call made and the number of calls so far
    coord_lines, target_list, merge_history, coord_call, n_calls

lsaVars  == <<observations, fixed_points, approximate_heights, max_iterations,
              check_stability, pc, current_heights, iteration, loc, error, result>>
kernVars == <<kernel_err, kernel_log>>
condVars == <<lines, loops, cond_fixed, cond_pc, cond_loc, cond_error, cond_result>>
lineVars == <<line, line_error, corrections, adjustment_info, trail, totals_calculated, n_ops>>
loopVars == <<net_lines, point_order, loop_max_size, loop_pc, found_loops, minimum_loops,
              double_runs, double_run_analysis>>
cfgVars  == <<settings_file, validator, cfg_call, last_set>>
coordVars == <<coord_lines, target_list, merge_history, coord_call, n_calls>>
vars     == <<lsaVars, kernVars, condVars, lineVars, loopVars, cfgVars, coordVars>>

None == <<>>

----------------------------------------------------------------------------
(* Bounds of the model *)
MaxObs == 3
MaxIterations == 3
MaxLines == 3
MaxLoops == 2
MaxSetups == 2
MaxOps == 2
MaxNetLines == 5
MaxSegments == 3
MaxCalls == 2

----------------------------------------------------------------------------
(* Exact rational arithmetic *)
Abs(x) == IF x < 0 THEN -x ELSE x

RECURSIVE GCD(_, _)
GCD(a, b) == IF b = 0 THEN a ELSE GCD(b, a % b)

Norm(n, d) ==
    LET g == GCD(Abs(n), Abs(d))
    IN  IF d < 0 THEN <<(-n) \div g, (-d) \div g>> ELSE <<n \div g, d \div g>>

R(n) == <<n, 1>>
\* common factors are divided out before multiplying, to keep the integers small
RAdd(a, b) ==
    LET g == GCD(a[2], b[2])
    IN  Norm(a[1] * (b[2] \div g) + b[1] * (a[2] \div g), (a[2] \div g) * b[2])
RNeg(a) == <<-a[1], a[2]>>
RSub(a, b) == RAdd(a, RNeg(b))
RMul(a, b) ==
    IF a[1] = 0 \/ b[1] = 0 THEN <<0, 1>>
    ELSE LET g1 == GCD(Abs(a[1]), b[2])
             g2 == GCD(Abs(b[1]), a[2])
         IN  <<(a[1] \div g1) * (b[1] \div g2), (a[2] \div g2) * (b[2] \div g1)>>
RDiv(a, b) == RMul(a, IF b[1] < 0 THEN <<-b[2], -b[1]>> ELSE <<b[2], b[1]>>)
RAbs(a) == <<Abs(a[1]), a[2]>>
RLt(a, b) == LET g == GCD(a[2], b[2]) IN a[1] * (b[2] \div g) < b[1] * (a[2] \div g)
RLe(a, b) == LET g == GCD(a[2], b[2]) IN a[1] * (b[2] \div g) <= b[1] * (a[2] \div g)
RMax(a, b) == IF RLt(a, b) THEN b ELSE a

\* a/b <= c/d for a, c >= 0 and b, d > 0, compared by whole parts and then
\* by the inverted remainders, so that no product is formed
RECURSIVE FracLe(_, _, _, _)
FracLe(a, b, c, d) ==
    IF a \div b # c \div d THEN a \div b < c \div d
    ELSE IF a % b = 0 THEN TRUE
    ELSE IF c % d = 0 THEN FALSE
    ELSE FracLe(d, c % d, b, a % b)

\* the same sequence, with its elements computed once
Eager(s) == s \o <<>>

\* s[1] + ... + s[n]
RECURSIVE RSumTo(_, _)
RSumTo(s, n) == IF n = 0 THEN R(0) ELSE RAdd(RSumTo(s, n - 1), s[n])

RSumSeq(s) == (LET t == s IN RSumTo(t, Len(t)))

\* sum(f(x) for x in s)
SumOver(s, f(_)) == RSumSeq([i \in 1..Len(s) |-> f(s[i])])

----------------------------------------------------------------------------
(* Matrices: a sequence of rows, each a sequence of rationals.  The column *)
(* count is passed where a matrix may have no rows.                        *)

Transpose(M, ncols) == Eager([j \in 1..ncols |-> Eager([i \in 1..Len(M) |-> M[i][j]])])

MatMul(X, Y, inner, ncols) ==
    Eager([i \in 1..Len(X) |-> Eager([j \in 1..ncols |->
        RSumSeq([k \in 1..inner |-> RMul(X[i][k], Y[k][j])])])])

MatVec(X, v) ==
    Eager([i \in 1..Len(X) |-> RSumSeq([k \in 1..Len(v) |-> RMul(X[i][k], v[k])])])

VecSub(u, v) == Eager([i \in 1..Len(u) |-> RSub(u[i], v[i])])

Dot(u, v) == RSumSeq([k \in 1..Len(u) |-> RMul(u[k], v[k])])

Minor(M, j) ==
    Eager([r \in 1..(Len(M) - 1) |-> Eager([c \in 1..(Len(M) - 1) |->
        M[r + 1][IF c < j THEN c ELSE c + 1]])])

\* np.linalg.det; the determinant of the empty matrix is 1
RECURSIVE Det(_)
Det(M) ==
    IF Len(M) = 0 THEN R(1)
    ELSE IF Len(M) = 1 THEN M[1][1]
    ELSE RSumSeq([j \in 1..Len(M) |->
            RMul(IF j % 2 = 1 THEN M[1][j] ELSE RNeg(M[1][j]),
                 (LET Mj == Minor(M, j) IN Det(Mj)))])

ReplaceCol(M, j, u) ==
    Eager([r \in 1..Len(M) |-> Eager([c \in 1..Len(M) |-> IF c = j THEN u[r] ELSE M[r][c]])])

\* np.linalg.solve on a non-singular matrix (Cramer's rule, exact)
Solve(N, U) ==
    (LET d == Det(N) IN
        Eager([j \in 1..Len(N) |-> (LET Nj == ReplaceCol(N, j, U) IN RDiv(Det(Nj), d))]))

----------------------------------------------------------------------------
(* Numerical kernel: AdjustmentComputations *)

\* |det| < 1e-15.  Every nonzero rational the model can hold has a numerator
\* of magnitude >= 1 and a denominator below 2^31, hence magnitude above
\* 1e-15: the comparison reduces to a zero numerator.
BelowDetThreshold(det) == det[1] = 0

\* np.linalg.cond(matrix) > condition_number_threshold = 1e10, for the
\* symmetric positive definite normal matrices.  With two rows the condition
\* number k satisfies k + 1/k + 2 = trace^2 / det, so k > 1e10 iff
\* (trace / 1e5)^2 / det > (1 + 1e-10)^2, which for the rationals the model can
\* hold is (trace / 1e5)^2 > det.  A single entry has k = 1.  The larger
\* normal matrices of the model have small integer entries and a nonzero
\* integer determinant, which keeps k far below the threshold.
IllConditioned(matrix) ==
    IF Len(matrix) # 2 \/ ~RLt(R(0), RAdd(matrix[1][1], matrix[2][2])) THEN FALSE
    ELSE LET t == RDiv(RAdd(matrix[1][1], matrix[2][2]), R(100000))
             q == RDiv(Det(matrix), t)
         IN  ~FracLe(t[1], t[2], q[1], q[2])

\* check_matrix_stability on a square matrix: the determinant test raises
\* SingularMatrixError; otherwise the stability_info payload is returned
\* (the rank only adds an entry to the payload).
CheckMatrixStability(matrix) ==
    LET det == Det(matrix)
    IN  IF BelowDetThreshold(det)
        THEN [raised |-> "SingularMatrixError",
              info |-> [is_square |-> TRUE, determinant |-> det, is_singular |-> TRUE]]
        ELSE [raised |-> "none",
              info |-> [is_square |-> TRUE, determinant |-> det, is_singular |-> FALSE,
                        is_ill_conditioned |-> IllConditioned(matrix)]]

KernelFail(kind, log) ==
    [err |-> kind, log |-> log, X |-> <<>>, V |-> <<>>, N |-> <<>>,
     sigma_0_squared |-> None, stability_info |-> None]

\* a slip: the redundancy check made after the normal matrix is formed
RunLinearAdjustment_LateCheck(A, L, P, n_unknowns, stability) ==
    IF Len(A) - n_unknowns <= 0
    THEN KernelFail("InsufficientObservationsError", <<"form_normal">>)
    ELSE KernelFail("SingularMatrixError", <<"form_normal">>)

\* run_linear_adjustment(A, L, P, check_stability); n_unknowns = A.shape[1].
\* log lists the normal-equation work done, in order.
RunLinearAdjustment(A, L, P, n_unknowns, stability) ==
    LET n_obs == Len(A)
        degrees_of_freedom == n_obs - n_unknowns
        log1 == IF stability THEN <<"form_normal", "check_stability">> ELSE <<"form_normal">>
    IN  IF Len(L) # n_obs THEN KernelFail("ValueError", <<>>)
        ELSE IF Len(P) # n_obs \/ (\E i \in 1..Len(P) : Len(P[i]) # n_obs)
             THEN KernelFail("ValueError", <<>>)
        ELSE IF degrees_of_freedom <= 0
             THEN KernelFail("InsufficientObservationsError", <<>>)
        ELSE
            (LET At == Transpose(A, n_unknowns) IN
            (LET AtP == MatMul(At, P, n_obs, n_obs) IN
            (LET N == MatMul(AtP, A, n_obs, n_unknowns) IN
            (LET U == MatVec(AtP, L) IN
            (LET stab == CheckMatrixStability(N) IN
                IF stability /\ stab.raised # "none"
                THEN KernelFail(stab.raised, log1)
                ELSE IF Det(N)[1] = 0      \* np.linalg.solve: LinAlgError
                THEN KernelFail("SingularMatrixError", log1 \o <<"solve">>)
                ELSE
                    (LET X == Solve(N, U) IN
                    (LET AX == MatVec(A, X) IN
                    (LET V == VecSub(AX, L) IN
                    (LET PV == MatVec(P, V) IN
                        [err |-> "none", log |-> log1 \o <<"solve">>,
                         X |-> X, V |-> V, N |-> N,
                         sigma_0_squared |-> RDiv(Dot(V, PV), R(degrees_of_freedom)),
                         stability_info |-> IF stability THEN <<stab.info>> ELSE None])))))))))

Minor2(M, i, j) ==
    Eager([r \in 1..(Len(M) - 1) |-> Eager([c \in 1..(Len(M) - 1) |->
        M[IF r < i THEN r ELSE r + 1][IF c < j THEN c ELSE c + 1]])])

\* np.linalg.inv on a non-singular matrix (adjugate over determinant, exact)
Inverse(M) ==
    (LET d == Det(M) IN
        Eager([i \in 1..Len(M) |-> Eager([j \in 1..Len(M) |->
            (LET Mji == Minor2(M, j, i) IN
                RDiv(IF (i + j) % 2 = 0 THEN Det(Mji) ELSE RNeg(Det(Mji)), d))])]))

\* run_conditional_adjustment(B, w, P, check_stability); n_obs = B.shape[1].
\* P is the diagonal matrix of positive weights its caller builds, so that
\* np.linalg.inv(P) succeeds and the except branch of lines 333-338 is not
\* taken.
RunConditionalAdjustment(B, w, P, n_obs, stability) ==
    LET n_conditions == Len(B)
        degrees_of_freedom == n_obs - n_conditions
        log1 == IF stability THEN <<"form_normal", "check_stability">> ELSE <<"form_normal">>
    IN  IF Len(w) # n_conditions THEN KernelFail("ValueError", <<>>)
        ELSE IF Len(P) # n_obs \/ (\E i \in 1..Len(P) : Len(P[i]) # n_obs)
             THEN KernelFail("ValueError", <<>>)
        ELSE IF degrees_of_freedom <= 0
             THEN KernelFail("InsufficientObservationsError", <<>>)
        ELSE
            (LET P_inv == Inverse(P) IN
            (LET Bt == Transpose(B, n_obs) IN
            (LET PinvBt == MatMul(P_inv, Bt, n_obs, n_conditions) IN
            (LET N == MatMul(B, PinvBt, n_obs, n_conditions) IN
            (LET u == Eager([i \in 1..n_conditions |-> RNeg(w[i])]) IN
            (LET stab == CheckMatrixStability(N) IN
                IF stability /\ stab.raised # "none"
                THEN KernelFail(stab.raised, log1)
                ELSE IF Det(N)[1] = 0      \* np.linalg.solve: LinAlgError
                THEN KernelFail("SingularMatrixError", log1 \o <<"solve">>)
                ELSE
                    (LET k == Solve(N, u) IN
                    (LET PinvBtk == MatVec(PinvBt, k) IN
                    (LET v == Eager([i \in 1..n_obs |-> RNeg(PinvBtk[i])]) IN
                    (LET Pv == MatVec(P, v) IN
                        [err |-> "none", log |-> log1 \o <<"solve">>,
                         k |-> k, v |-> v, N |-> N,
                         sigma_0_squared |-> RDiv(Dot(v, Pv), R(degrees_of_freedom)),
                         stability_info |-> IF stability THEN <<stab.info>> ELSE None]))))))))))

----------------------------------------------------------------------------
(* LeastSquaresAdjuster *)

Points == {"A", "B", "C"}
\* sorted(): lexicographic order of the point ids
PointOrder == <<"A", "B", "C">>

Tolerance == <<1, 1000000>>

ObsChoices ==
    {[from_point |-> "A", to_point |-> "B", height_diff |-> <<1, 100>>, distance |-> R(2000)],
     [from_point |-> "B", to_point |-> "C", height_diff |-> <<-1, 100>>, distance |-> R(0)],
     [from_point |-> "C", to_point |-> "A", height_diff |-> <<1, 100>>, distance |-> R(2000)]}
FixedHeights == {R(10)}
FixedChoices == UNION {[S -> FixedHeights] : S \in {{}, {"A"}, {"C"}, Points}}
ApproxChoices == {None, [p \in {"A", "B"} |-> R(12)]}

SeqsUpTo(S, n) == UNION {[1..k -> S] : k \in 0..n}

AllPoints(obs) == {obs[i].from_point : i \in 1..Len(obs)} \cup {obs[i].to_point : i \in 1..Len(obs)}
UnknownList(obs, fixed) ==
    SelectSeq(PointOrder, LAMBDA p : p \in AllPoints(obs) \ DOMAIN fixed)

IndexOf(seq, x) == CHOOSE j \in 1..Len(seq) : seq[j] = x
InSeq(seq, x) == \E j \in 1..Len(seq) : seq[j] = x

\* dict.get(key, 0)
Get(h, p) == IF p \in DOMAIN h THEN h[p] ELSE R(0)

\* lines 141-146: fixed heights, then approximate or 0.0 for each unknown
InitialHeights(obs, fixed, approx) ==
    LET a == IF approx = None THEN <<>> ELSE approx
        unknown_list == UnknownList(obs, fixed)
    IN  [p \in DOMAIN fixed \cup {unknown_list[j] : j \in 1..Len(unknown_list)} |->
            IF p \in DOMAIN fixed THEN fixed[p]
            ELSE IF p \in DOMAIN a THEN a[p] ELSE R(0)]

\* lines 159-181: one row of A; the from-column assignment comes last
DesignMatrix(obs, unknown_list) ==
    Eager([i \in 1..Len(obs) |-> Eager([j \in 1..Len(unknown_list) |->
        IF obs[i].from_point = unknown_list[j] THEN R(-1)
        ELSE IF obs[i].to_point = unknown_list[j] THEN R(1)
        ELSE R(0)])])

ObservationVector(obs, heights) ==
    Eager([i \in 1..Len(obs) |->
        RSub(obs[i].height_diff,
             RSub(Get(heights, obs[i].to_point), Get(heights, obs[i].from_point)))])

\* lines 183-188 and 370-377: P[i,i] = 1/dist_km if dist_km > 0 else 1.0
Weight(distance) ==
    LET dist_km == RDiv(distance, R(1000))
    IN  IF RLt(R(0), dist_km) THEN RDiv(R(1), dist_km) ELSE R(1)

WeightMatrix(obs) ==
    Eager([i \in 1..Len(obs) |-> Eager([j \in 1..Len(obs) |->
        IF i = j THEN Weight(obs[i].distance) ELSE R(0)])])

\* a slip: the correction vector applied to every point of current_heights
ApplyDX_AllPoints(heights, unknown_list, dX) ==
    [p \in DOMAIN heights |-> RAdd(heights[p], dX[1])]

\* lines 209-214: corrections are added to the unknown points only
ApplyDX(heights, unknown_list, dX) ==
    [p \in DOMAIN heights |->
        IF InSeq(unknown_list, p) THEN RAdd(heights[p], dX[IndexOf(unknown_list, p)])
        ELSE heights[p]]

RECURSIVE MaxAbs(_)
MaxAbs(s) == IF s = <<>> THEN R(0) ELSE RMax(RAbs(s[1]), MaxAbs(Tail(s)))

\* how the adjuster re-raises what the kernel raised (lines 202-207)
AdjustReraise(kind) == IF kind = "SingularMatrixError" THEN "ValueError" ELSE kind

\* the loop body without the convergence test of lines 217-219
Iterate_NoBreak(obs, fixed, heights, stability) ==
    (LET unknown_list == UnknownList(obs, fixed) IN
    (LET A == DesignMatrix(obs, unknown_list) IN
    (LET L == ObservationVector(obs, heights) IN
    (LET P == WeightMatrix(obs) IN
    (LET adj_result == RunLinearAdjustment(A, L, P, Len(unknown_list), stability) IN
        [kernel |-> adj_result, A |-> A, L |-> L, P |-> P,
         heights |-> IF adj_result.err = "none"
                     THEN ApplyDX(heights, unknown_list, adj_result.X) ELSE heights,
         converged |-> FALSE])))))

\* one pass of the body of the iteration loop (lines 150-219)
Iterate(obs, fixed, heights, stability) ==
    (LET unknown_list == UnknownList(obs, fixed) IN
    (LET A == DesignMatrix(obs, unknown_list) IN
    (LET L == ObservationVector(obs, heights) IN
    (LET P == WeightMatrix(obs) IN
    (LET adj_result == RunLinearAdjustment(A, L, P, Len(unknown_list), stability) IN
        [kernel |-> adj_result, A |-> A, L |-> L, P |-> P,
         heights |-> IF adj_result.err = "none"
                     THEN ApplyDX(heights, unknown_list, adj_result.X) ELSE heights,
         converged |-> adj_result.err = "none"
                       /\ RLt(MaxAbs(adj_result.X), Tolerance)])))))

\* the last index of an observation with the residual key of observation i
LastWithKey(obs, i) ==
    CHOOSE k \in 1..Len(obs) :
        /\ obs[k].from_point = obs[i].from_point /\ obs[k].to_point = obs[i].to_point
        /\ \A m \in (k + 1)..Len(obs) :
              ~(obs[m].from_point = obs[i].from_point /\ obs[m].to_point = obs[i].to_point)

\* lines 250-254: a dict keyed by "from-to"; a later observation with the
\* same key overwrites the earlier entry
ResidualsDict(obs, V) ==
    [key \in {<<obs[i].from_point, obs[i].to_point>> : i \in 1..Len(obs)} |->
        LET i == CHOOSE k \in 1..Len(obs) :
                     /\ <<obs[k].from_point, obs[k].to_point>> = key
                     /\ LastWithKey(obs, k) = k
        IN  RMul(V[i], R(1000))]

\* lines 221-266: the AdjustmentResult built after the loop.  The square
\* roots are kept squared (mse_unit_weight, k_coefficient).
BuildResult(obs, fixed, heights, iter, A, L, P, dX) ==
    (LET unknown_list == UnknownList(obs, fixed) IN
    (LET AdX == MatVec(A, dX) IN
    (LET V == VecSub(AdX, L) IN
    (LET PV == MatVec(P, V) IN
    (LET total_dist_km == RDiv(SumOver(obs, LAMBDA o : o.distance), R(1000)) IN
    (LET total_diff_mm == SumOver(V, LAMBDA r : RMul(RAbs(r), R(1000))) IN
        [iteration |-> iter,
         mse_unit_weight_squared |->
            IF Len(obs) - Len(unknown_list) > 0
            THEN RDiv(Dot(V, PV), R(Len(obs) - Len(unknown_list))) ELSE R(0),
         adjusted_heights |-> heights,
         residuals |-> ResidualsDict(obs, V),
         \* line 234 reads the name N, which adjust never binds: the bare
         \* except of line 238 then sets every entry to 0.0
         mse_heights |-> [p \in {unknown_list[j] : j \in 1..Len(unknown_list)} |-> R(0)],
         total_distance_km |-> total_dist_km,
         total_diff_mm |-> total_diff_mm,
         k_coefficient_squared |->
            IF RLt(R(0), total_dist_km)
            THEN RMul(total_diff_mm, RDiv(total_diff_mm, total_dist_km)) ELSE R(0)]))))))

\* a slip: the check for an empty fixed_points left out
ValidateArguments_NoFixedCheck(obs, fixed) ==
    IF obs = <<>> THEN "ValueError"
    ELSE IF UnknownList(obs, fixed) = <<>> THEN "ValueError"
    ELSE "none"

\* lines 110-131: the argument checks of adjust
ValidateArguments(obs, fixed) ==
    IF obs = <<>> THEN "ValueError"
    ELSE IF DOMAIN fixed = {} THEN "ValueError"
    ELSE IF UnknownList(obs, fixed) = <<>> THEN "ValueError"
    ELSE "none"

DefaultMaxIterations == 10

----------------------------------------------------------------------------
(* ConditionalAdjuster *)

LineChoices ==
    {[start_point |-> "A", end_point |-> "B", total_height_diff |-> <<1, 100>>, total_distance |-> R(2000)],
     [start_point |-> "B", end_point |-> "C", total_height_diff |-> <<-1, 100>>, total_distance |-> R(0)],
     [start_point |-> "C", end_point |-> "A", total_height_diff |-> <<1, 100>>, total_distance |-> R(2000)]}
\* loops are lists of 0-based line indices
LoopChoices == {<<0>>, <<0, 1, 2>>, <<0, 0>>, <<1, 3>>}
CondFixedChoices == {<<>>, [p \in {"A"} |-> R(10)]}

\* lines 353-365: one MeasurementSummary per line
ToObservations(ls) ==
    Eager([i \in 1..Len(ls) |->
        [from_point |-> ls[i].start_point, to_point |-> ls[i].end_point,
         height_diff |-> ls[i].total_height_diff, distance |-> ls[i].total_distance]])

\* the in-range indices of a loop (line 386), as 1-based positions
InRange(loop, n_obs) ==
    SelectSeq(loop, LAMBDA line_idx : 0 <= line_idx /\ line_idx < n_obs)

\* lines 380-392: B[loop_idx, line_idx] = 1.0 for every in-range index listed
ConditionMatrix(lps, n_obs) ==
    Eager([c \in 1..Len(lps) |-> Eager([i \in 1..n_obs |->
        IF InSeq(lps[c], i - 1) THEN R(1) ELSE R(0)])])

\* lines 384-392: the height differences are added once per listed index
MisclosureVector(lps, obs) ==
    Eager([c \in 1..Len(lps) |->
        SumOver(InRange(lps[c], Len(obs)), LAMBDA line_idx : obs[line_idx + 1].height_diff)])

\* how adjust_loops re-raises what the kernel raised (lines 404-409)
LoopsReraise(kind) ==
    IF kind \in {"SingularMatrixError", "InsufficientObservationsError"}
    THEN "ValueError" ELSE kind

\* lines 411-422 and 473-485: the observations with adjusted_dh = observed + v
AdjustedObservations(obs, v) ==
    Eager([i \in 1..Len(obs) |->
        [from_point |-> obs[i].from_point, to_point |-> obs[i].to_point,
         height_diff |-> RAdd(obs[i].height_diff, v[i]), distance |-> obs[i].distance]])

\* adjust_loops up to the adjusted observations: lines 352-422
AdjustLoops(ls, lps, stability) ==
    LET obs == ToObservations(ls)
        P == WeightMatrix(obs)
        B == ConditionMatrix(lps, Len(obs))
        w == MisclosureVector(lps, obs)
        adj_result == RunConditionalAdjustment(B, w, P, Len(obs), stability)
    IN  [err |-> LoopsReraise(adj_result.err), kernel |-> adj_result,
         B |-> B, w |-> w, P |-> P,
         adjusted_obs |-> IF adj_result.err = "none"
                          THEN AdjustedObservations(obs, adj_result.v) ELSE <<>>]

\* adjust_loops from the residuals dict on: lines 432-459
LoopsResult(ls, v, sigma_0_squared, heights) ==
    LET obs == ToObservations(ls)
        total_dist_km == RDiv(SumOver(obs, LAMBDA o : o.distance), R(1000))
        total_diff_mm == SumOver(v, LAMBDA r : RMul(RAbs(r), R(1000)))
    IN  [iteration |-> 1,
         mse_unit_weight_squared |-> sigma_0_squared,
         adjusted_heights |-> heights,
         residuals |-> ResidualsDict(obs, v),
         mse_heights |-> <<>>,
         total_distance_km |-> total_dist_km,
         total_diff_mm |-> total_diff_mm,
         k_coefficient_squared |->
            IF RLt(R(0), total_dist_km)
            THEN RMul(total_diff_mm, RDiv(total_diff_mm, total_dist_km))
            ELSE R(0)]

----------------------------------------------------------------------------
(* LevelingLine and the height utilities *)

\* (distance_back + distance_fore) / 2
SetupDist(setup) == RDiv(RAdd(setup.distance_back, setup.distance_fore), R(2))

\* the setups' height_diff values that are not None, in order
HeightDiffs(setups) ==
    (LET present == SelectSeq(setups, LAMBDA st : st.height_diff # None) IN
        Eager([i \in 1..Len(present) |-> present[i].height_diff]))

\* LevelingLine.calculate_totals
CalculateTotals(ln) ==
    [ln EXCEPT !.total_distance = SumOver(ln.setups, SetupDist),
               !.total_height_diff = RSumSeq(HeightDiffs(ln.setups))]

\* a variant that forgets the line total
ToggleDirection_KeepTotal(ln) ==
    [ln EXCEPT
        !.start_point = ln.end_point,
        !.end_point = ln.start_point,
        !.setups = Eager([i \in 1..Len(ln.setups) |->
            [ln.setups[i] EXCEPT
                !.height_diff = IF ln.setups[i].height_diff # None
                                THEN RNeg(ln.setups[i].height_diff) ELSE None,
                !.from_point = ln.setups[i].to_point,
                !.to_point = ln.setups[i].from_point]])]

\* LevelingLine.toggle_direction
ToggleDirection(ln) ==
    [ln EXCEPT
        !.start_point = ln.end_point,
        !.end_point = ln.start_point,
        !.method = IF ln.method = "BF" THEN "FB"
                   ELSE IF ln.method = "FB" THEN "BF" ELSE ln.method,
        !.setups = Eager([i \in 1..Len(ln.setups) |->
            [ln.setups[i] EXCEPT
                !.height_diff = IF ln.setups[i].height_diff # None
                                THEN RNeg(ln.setups[i].height_diff) ELSE None,
                !.from_point = ln.setups[i].to_point,
                !.to_point = ln.setups[i].from_point]]),
        !.total_height_diff = RNeg(ln.total_height_diff)]

\* distribute_misclosure(line, misclosure, method)
DistributeMisclosure(ln, misclosure, method) ==
    LET n_setups == Len(ln.setups)
    IN  IF n_setups = 0 THEN <<>>
        ELSE IF method = "equal"
        THEN Eager([i \in 1..n_setups |-> RDiv(RNeg(misclosure), R(n_setups))])
        ELSE IF method = "proportional"
        THEN IF ln.total_distance = R(0)
             THEN Eager([i \in 1..n_setups |-> R(0)])
             ELSE Eager([i \in 1..n_setups |->
                     RMul(RNeg(misclosure), RDiv(SetupDist(ln.setups[i]), ln.total_distance))])
        ELSE <<>>

\* the height_diff of setup i after its correction (lines 167-168)
Corrected(setup, correction) ==
    IF setup.height_diff # None THEN RAdd(setup.height_diff, correction) ELSE None

\* the running cumulative height after the first i corrected setups
RECURSIVE Cumulative(_, _, _)
Cumulative(setups, corrs, i) ==
    IF i = 0 THEN R(0)
    ELSE IF setups[i].height_diff # None
         THEN RAdd(Cumulative(setups, corrs, i - 1), Corrected(setups[i], corrs[i]))
         ELSE Cumulative(setups, corrs, i - 1)

\* a variant that leaves the line total as it was
CorrectedLine_StaleTotal(ln, corrs) ==
    [ln EXCEPT
        !.setups = Eager([i \in 1..Len(ln.setups) |->
            [ln.setups[i] EXCEPT
                !.height_diff = Corrected(ln.setups[i], corrs[i]),
                !.cumulative_height = Cumulative(ln.setups, corrs, i)]])]

\* apply_corrections past the length check: lines 165-176
CorrectedLine(ln, corrs) ==
    [ln EXCEPT
        !.setups = Eager([i \in 1..Len(ln.setups) |->
            [ln.setups[i] EXCEPT
                !.height_diff = Corrected(ln.setups[i], corrs[i]),
                !.cumulative_height = Cumulative(ln.setups, corrs, i)]]),
        !.total_height_diff = Cumulative(ln.setups, corrs, Len(ln.setups))]

\* a variant that corrects as many setups as there are corrections, without
\* the length check
ApplyCorrections_Truncating(ln, corrs) ==
    [err |-> "none",
     line |-> [ln EXCEPT !.setups = Eager([i \in 1..Len(ln.setups) |->
                  IF i <= Len(corrs)
                  THEN [ln.setups[i] EXCEPT !.height_diff = Corrected(ln.setups[i], corrs[i])]
                  ELSE ln.setups[i]])]]

\* apply_corrections(line, corrections): the line is changed in place
ApplyCorrections(ln, corrs) ==
    IF Len(corrs) # Len(ln.setups)
    THEN [err |-> "ValueError", line |-> ln]
    ELSE [err |-> "none", line |-> CorrectedLine(ln, corrs)]

\* the misclosure with its sign reversed
CalculateMisclosure_Reversed(computed_dh, start_height, end_height) ==
    RSub(RSub(end_height, start_height), computed_dh)

\* calculate_misclosure(computed_dh, start_height, end_height)
CalculateMisclosure(computed_dh, start_height, end_height) ==
    RSub(computed_dh, RSub(end_height, start_height))

\* settings.tolerance.class_3 and LineAdjuster.leveling_class
Class3Factor == 3

\* abs(misclosure_mm) <= factor * sqrt(distance_m / 1000), both sides squared
WithinTolerance(misclosure_mm, distance_m) ==
    LET lhs == RMul(misclosure_mm, misclosure_mm)
        rhs == RMul(R(Class3Factor * Class3Factor), RDiv(distance_m, R(1000)))
    IN  FracLe(lhs[1], lhs[2], rhs[1], rhs[2])

\* the current height after the first i setups (lines 119-124)
RECURSIVE HeightAfter(_, _, _)
HeightAfter(setups, start_height, i) ==
    IF i = 0 THEN start_height
    ELSE IF setups[i].height_diff # None
         THEN RAdd(HeightAfter(setups, start_height, i - 1), setups[i].height_diff)
         ELSE HeightAfter(setups, start_height, i - 1)

\* LineAdjuster._calculate_intermediate_heights: a dict, later writes win
IntermediateHeights(ln, start_height) ==
    [p \in {ln.start_point} \cup {ln.setups[i].to_point : i \in 1..Len(ln.setups)} |->
        IF \E i \in 1..Len(ln.setups) : ln.setups[i].to_point = p
        THEN HeightAfter(ln.setups, start_height,
                 CHOOSE i \in 1..Len(ln.setups) :
                     /\ ln.setups[i].to_point = p
                     /\ \A k \in (i + 1)..Len(ln.setups) : ln.setups[k].to_point # p)
        ELSE start_height]

\* LineAdjuster.adjust past the benchmark checks: lines 61-101
AdjustMatched(ln, start_benchmark, end_benchmark) ==
    (LET misclosure == CalculateMisclosure(ln.total_height_diff, start_benchmark.height,
                            end_benchmark.height) IN
    (LET corrs == DistributeMisclosure(ln, misclosure, "proportional") IN
    (LET applied == ApplyCorrections(ln, corrs) IN
        IF applied.err # "none"
        THEN [err |-> applied.err, line |-> applied.line, info |-> None]
        ELSE [err |-> "none", line |-> applied.line,
              info |-> <<[misclosure_m |-> misclosure,
                         misclosure_mm |-> RMul(misclosure, R(1000)),
                         within_tolerance |->
                             WithinTolerance(RMul(misclosure, R(1000)), ln.total_distance),
                         start_height |-> start_benchmark.height,
                         end_height |-> end_benchmark.height,
                         \* read from the line after apply_corrections changed it
                         computed_dh |-> applied.line.total_height_diff,
                         expected_dh |-> RSub(end_benchmark.height, start_benchmark.height),
                         intermediate_heights |->
                             IntermediateHeights(applied.line, start_benchmark.height),
                         corrections |-> corrs]>>])))

\* a variant that checks the start benchmark only
LineAdjust_NoEndCheck(ln, start_benchmark, end_benchmark) ==
    IF ln.start_point # start_benchmark.point_id
    THEN [err |-> "ValueError", line |-> ln, info |-> None]
    ELSE AdjustMatched(ln, start_benchmark, end_benchmark)

\* LineAdjuster.adjust(line, start_benchmark, end_benchmark)
LineAdjust(ln, start_benchmark, end_benchmark) ==
    IF ln.start_point # start_benchmark.point_id
    THEN [err |-> "ValueError", line |-> ln, info |-> None]
    ELSE IF ln.end_point # end_benchmark.point_id
    THEN [err |-> "ValueError", line |-> ln, info |-> None]
    ELSE AdjustMatched(ln, start_benchmark, end_benchmark)

----------------------------------------------------------------------------
(* Accuracy classes H1..H6: israel_survey_regulations *)

\* tolerance_coefficient of H1_PARAMETERS .. H6_PARAMETERS, mm per sqrt(km)
ToleranceCoefficients == <<3, 5, 10, 20, 30, 60>>

\* get_class_parameters raises ValueError outside CLASS_REGISTRY
InRegistry(leveling_class) == leveling_class \in 1..Len(ToleranceCoefficients)

\* a slip: the tolerance itself taken as already exceeded
WithinClassTolerance_Strict(value_mm, class_num, dist_km) ==
    RLt(RMul(value_mm, value_mm),
        RMul(R(ToleranceCoefficients[class_num] * ToleranceCoefficients[class_num]), dist_km))

\* value_mm <= get_tolerance_mm(dist_km) = coefficient * sqrt(dist_km), for a
\* value_mm >= 0: both sides are compared squared
WithinClassTolerance(value_mm, class_num, dist_km) ==
    RLe(RMul(value_mm, value_mm),
        RMul(R(ToleranceCoefficients[class_num] * ToleranceCoefficients[class_num]), dist_km))

\* for class_num in range(1, 7): the first class whose tolerance admits the
\* value, 0 when the range is exhausted
RECURSIVE FirstClass(_, _, _)
FirstClass(value_mm, dist_km, class_num) ==
    IF class_num > 6 THEN 0
    ELSE IF InRegistry(class_num) /\ WithinClassTolerance(value_mm, class_num, dist_km)
         THEN class_num
         ELSE FirstClass(value_mm, dist_km, class_num + 1)

\* Loop.tolerance_class
ToleranceClass(loop) ==
    FirstClass(RAbs(RMul(loop.misclosure, R(1000))),
               RDiv(loop.total_distance, R(1000)), 1)

\* get_tolerance_mm of the target class, with the H1 fallback of the callers;
\* the square root is kept symbolic: coefficient * sqrt(distance_km)
TargetTolerance(target_class, dist_km) ==
    [coefficient |-> IF InRegistry(target_class)
                     THEN ToleranceCoefficients[target_class] ELSE 3,
     distance_km |-> dist_km]

\* abs(value_mm) <= tolerance
WithinTargetTolerance(value_mm, tolerance) ==
    RLe(RMul(value_mm, value_mm),
        RMul(R(tolerance.coefficient * tolerance.coefficient), tolerance.distance_km))

\* LoopAnalyzer.analyze_double_run(line1, line2, target_class)
AnalyzeDoubleRun(line1, line2, target_class) ==
    IF ~(line1.start_point = line2.end_point /\ line1.end_point = line2.start_point)
    THEN [valid |-> FALSE, error |-> "Lines do not form a proper double-run"]
    ELSE
    LET dh_forward == line1.total_height_diff
        dh_return == line2.total_height_diff
        misclosure == RAdd(dh_forward, dh_return)
        misclosure_mm == RMul(misclosure, R(1000))
        total_distance == RAdd(line1.total_distance, line2.total_distance)
        dist_km == RDiv(total_distance, R(1000))
        tolerance_mm == TargetTolerance(target_class, dist_km)
        achieved_class == FirstClass(RAbs(misclosure_mm), dist_km, 1)
    IN  [valid |-> TRUE,
         forward_dh |-> dh_forward,
         return_dh |-> dh_return,
         misclosure |-> misclosure,
         misclosure_mm |-> misclosure_mm,
         mean_dh |-> RDiv(RSub(dh_forward, dh_return), R(2)),
         total_distance |-> total_distance,
         target_class |-> target_class,
         achieved_class |-> achieved_class,
         tolerance_class |-> achieved_class,
         within_tolerance |-> WithinTargetTolerance(misclosure_mm, tolerance_mm),
         tolerance_mm |-> tolerance_mm]

----------------------------------------------------------------------------
(* Loop detection: loop_detector.py.  A line is known by its position in   *)
(* NetworkGraph.lines (its identity); "line in used_lines" compares the    *)
(* dataclass fields.                                                       *)

\* NetworkGraph.add_lines: the adjacency entries in insertion order, two per
\* line (every input line names both its end points)
Edges(ls) ==
    [k \in 1..(2 * Len(ls)) |->
        IF k % 2 = 1
        THEN [at |-> ls[(k + 1) \div 2].start_point,
              neighbor |-> ls[(k + 1) \div 2].end_point, line |-> (k + 1) \div 2]
        ELSE [at |-> ls[k \div 2].end_point,
              neighbor |-> ls[k \div 2].start_point, line |-> k \div 2]]

\* NetworkGraph.points
GraphPoints(ls) ==
    {ls[i].start_point : i \in 1..Len(ls)} \cup {ls[i].end_point : i \in 1..Len(ls)}

\* get_neighbors(point)
GetNeighbors(ls, point) == SelectSeq(Edges(ls), LAMBDA e : e.at = point)

\* line in used_lines
LineUsed(ls, used_lines, i) ==
    \E k \in 1..Len(used_lines) : ls[used_lines[k]] = ls[i]

\* dfs(current, path, used_lines, depth) of _find_loops_from_point, and the
\* body of its for loop from the k-th neighbour on; the loops appended, in order
RECURSIVE Dfs(_, _, _, _, _, _, _)
RECURSIVE DfsNeighbors(_, _, _, _, _, _, _, _)
Dfs(ls, start, max_size, current, path, used_lines, depth) ==
    IF depth > max_size THEN <<>>
    ELSE DfsNeighbors(ls, start, max_size, GetNeighbors(ls, current), 1,
                      path, used_lines, depth)
DfsNeighbors(ls, start, max_size, nbrs, k, path, used_lines, depth) ==
    IF k > Len(nbrs) THEN <<>>
    ELSE (IF LineUsed(ls, used_lines, nbrs[k].line) THEN <<>>
          ELSE IF nbrs[k].neighbor = start /\ Len(used_lines) >= 2
               THEN <<[lines |-> Append(used_lines, nbrs[k].line),
                       points |-> Append(path, nbrs[k].neighbor)]>>
          ELSE IF ~InSeq(Tail(path), nbrs[k].neighbor)
               THEN Dfs(ls, start, max_size, nbrs[k].neighbor,
                        Append(path, nbrs[k].neighbor),
                        Append(used_lines, nbrs[k].line), depth + 1)
          ELSE <<>>)
         \o DfsNeighbors(ls, start, max_size, nbrs, k + 1, path, used_lines, depth)

\* _find_loops_from_point(start, max_size)
FindLoopsFromPoint(ls, start, max_size) ==
    Dfs(ls, start, max_size, start, <<start>>, <<>>, 0)

\* a slip: the distances are not accumulated
LoopCalculateMisclosure_NoDistance(ls, loop) ==
    [lines |-> loop.lines,
     points |-> loop.points,
     misclosure |-> SumOver(loop.lines, LAMBDA i : ls[i].total_height_diff),
     total_distance |-> R(0),
     allowable_tolerance |-> TargetTolerance(1, R(0))]

\* Loop.calculate_misclosure() with the default target class H1
LoopCalculateMisclosure(ls, loop) ==
    [lines |-> loop.lines,
     points |-> loop.points,
     misclosure |-> SumOver(loop.lines, LAMBDA i : ls[i].total_height_diff),
     total_distance |-> SumOver(loop.lines, LAMBDA i : ls[i].total_distance),
     allowable_tolerance |->
        TargetTolerance(1, RDiv(SumOver(loop.lines, LAMBDA i : ls[i].total_distance),
                                R(1000)))]

\* frozenset(id(line) for line in loop.lines)
LoopSignature(loop) == {loop.lines[k] : k \in 1..Len(loop.lines)}

\* the loops found from every point of the iteration order, concatenated
RECURSIVE FoundFromPoints(_, _, _, _)
FoundFromPoints(ls, order, max_size, k) ==
    IF k > Len(order) THEN <<>>
    ELSE FindLoopsFromPoint(ls, order[k], max_size)
           \o FoundFromPoints(ls, order, max_size, k + 1)

\* a slip: no loop is ever taken as visited
KeepUnvisited_All(ls, found, k, visited_loops) ==
    [i \in 1..Len(found) |-> LoopCalculateMisclosure(ls, found[i])]

\* the inner loop of find_all_loops over the found loops, from the k-th on
RECURSIVE KeepUnvisited(_, _, _, _)
KeepUnvisited(ls, found, k, visited_loops) ==
    IF k > Len(found) THEN <<>>
    ELSE IF LoopSignature(found[k]) \in visited_loops
         THEN KeepUnvisited(ls, found, k + 1, visited_loops)
         ELSE <<LoopCalculateMisclosure(ls, found[k])>>
                \o KeepUnvisited(ls, found, k + 1,
                                 visited_loops \cup {LoopSignature(found[k])})

\* find_all_loops(max_loop_size); order is the iteration order of the set
\* self.points
FindAllLoops(ls, order, max_loop_size) ==
    KeepUnvisited(ls, FoundFromPoints(ls, order, max_loop_size, 1), 1, {})

\* the maximum loop size find_all_loops takes by default
DefaultMaxLoopSize == 10

\* _dfs_visit: the points reachable from the visited ones
RECURSIVE DfsVisit(_, _)
DfsVisit(ls, visited) ==
    IF \E e \in {Edges(ls)[k] : k \in 1..(2 * Len(ls))} :
          e.at \in visited /\ e.neighbor \notin visited
    THEN DfsVisit(ls, visited \cup
                      {Edges(ls)[k].neighbor : k \in {j \in 1..(2 * Len(ls)) :
                                                         Edges(ls)[j].at \in visited}})
    ELSE visited

\* _count_components over the points in iteration order, from the k-th on
RECURSIVE CountComponents(_, _, _, _)
CountComponents(ls, order, k, visited) ==
    IF k > Len(order) THEN 0
    ELSE IF order[k] \in visited THEN CountComponents(ls, order, k + 1, visited)
    ELSE 1 + CountComponents(ls, order, k + 1, DfsVisit(ls, visited \cup {order[k]}))

\* list.sort(key=num_lines): stable, the sizes from k upwards
RECURSIVE SortByNumLines(_, _, _)
SortByNumLines(all_loops, k, max_k) ==
    IF k > max_k THEN <<>>
    ELSE SelectSeq(all_loops, LAMBDA l : Len(l.lines) = k)
           \o SortByNumLines(all_loops, k + 1, max_k)

\* seq[:n] for n >= 0
Slice(seq, n) == SubSeq(seq, 1, IF n > Len(seq) THEN Len(seq) ELSE n)

Max(a, b) == IF a >= b THEN a ELSE b

\* find_minimum_loops()
FindMinimumLoops(ls, order) ==
    LET all_loops == FindAllLoops(ls, order, DefaultMaxLoopSize)
        expected_loops == Len(ls) - Cardinality(GraphPoints(ls))
                            + CountComponents(ls, order, 1, {})
    IN  Slice(SortByNumLines(all_loops, 0, Len(ls) + 1),
              Max(expected_loops, Len(all_loops)))

\* a slip: a line paired once may be paired again
DetectDoubleRuns_Reusing(ls, i, used, pairs) ==
    LET all == {p \in (1..Len(ls)) \X (1..Len(ls)) :
                   /\ p[1] < p[2]
                   /\ ls[p[1]].start_point = ls[p[2]].end_point
                   /\ ls[p[1]].end_point = ls[p[2]].start_point}
        RECURSIVE List(_)
        List(S) == IF S = {} THEN <<>>
                   ELSE LET m == CHOOSE x \in S : \A y \in S :
                                    x[1] < y[1] \/ (x[1] = y[1] /\ x[2] <= y[2])
                        IN  <<m>> \o List(S \ {m})
    IN  List(all)

\* detect_double_runs(lines), its outer loop from position i on: pairs of
\* list positions (forward, return)
RECURSIVE DetectDoubleRuns(_, _, _, _)
DetectDoubleRuns(ls, i, used, pairs) ==
    IF i > Len(ls) THEN pairs
    ELSE IF i \in used THEN DetectDoubleRuns(ls, i + 1, used, pairs)
    ELSE LET J == {j \in (i + 1)..Len(ls) :
                     /\ j \notin used
                     /\ ls[i].start_point = ls[j].end_point
                     /\ ls[i].end_point = ls[j].start_point}
         IN  IF J = {} THEN DetectDoubleRuns(ls, i + 1, used, pairs)
             ELSE DetectDoubleRuns(ls, i + 1,
                                   used \cup {i, CHOOSE j \in J : \A x \in J : j <= x},
                                   Append(pairs, <<i, CHOOSE j \in J : \A x \in J : j <= x>>))

----------------------------------------------------------------------------
(* The machines idle in each other's specifications *)
LsaIdle ==
    /\ observations = <<>> /\ fixed_points = <<>> /\ approximate_heights = None
    /\ max_iterations = 0 /\ check_stability = TRUE /\ pc = "idle"
    /\ current_heights = <<>> /\ iteration = 0 /\ loc = <<>>
    /\ error = "none" /\ result = None
CondIdle ==
    /\ lines = <<>> /\ loops = <<>> /\ cond_fixed = <<>> /\ cond_pc = "idle"
    /\ cond_loc = <<>> /\ cond_error = "none" /\ cond_result = None
LineIdle ==
    /\ line = <<>> /\ line_error = "none" /\ corrections = <<>>
    /\ adjustment_info = None /\ trail = <<>> /\ totals_calculated = FALSE
    /\ n_ops = 0
KernelIdle == kernel_err = "none" /\ kernel_log = <<>>
CfgIdle == settings_file = None /\ validator = None /\ cfg_call = None /\ last_set = "none"
NoCall == [op |-> "none", arg |-> <<>>, err |-> "none", ret |-> <<>>]
CoordIdle ==
    /\ coord_lines = <<>> /\ target_list = <<>> /\ merge_history = <<>>
    /\ coord_call = NoCall /\ n_calls = 0
LoopIdle ==
    /\ net_lines = <<>> /\ point_order = <<>> /\ loop_max_size = 0 /\ loop_pc = "idle"
    /\ found_loops = None /\ minimum_loops = None /\ double_runs = None
    /\ double_run_analysis = None

----------------------------------------------------------------------------
(* LeastSquaresAdjuster.adjust as a state machine *)

InitLSA ==
    /\ observations \in SeqsUpTo(ObsChoices, MaxObs)
    /\ fixed_points \in FixedChoices
    /\ approximate_heights \in ApproxChoices
    /\ max_iterations \in 1..MaxIterations
    /\ check_stability \in BOOLEAN
    /\ pc = "start"
    /\ current_heights = <<>> /\ iteration = 0 /\ loc = <<>>
    /\ error = "none" /\ result = None
    /\ KernelIdle /\ CondIdle /\ LineIdle /\ LoopIdle /\ CfgIdle /\ CoordIdle

\* lines 110-146: argument checks and the initial heights
AdjustValidate ==
    /\ pc = "start"
    /\ IF ValidateArguments(observations, fixed_points) # "none"
       THEN /\ error' = ValidateArguments(observations, fixed_points)
            /\ pc' = "raised"
            /\ UNCHANGED current_heights
       ELSE /\ current_heights' = InitialHeights(observations, fixed_points, approximate_heights)
            /\ pc' = "loop"
            /\ UNCHANGED error
    /\ UNCHANGED <<observations, fixed_points, approximate_heights, max_iterations,
                   check_stability, iteration, loc, result, kernVars, condVars, lineVars, loopVars, cfgVars, coordVars>>

\* lines 149-219: one iteration of the loop
AdjustIterate ==
    /\ pc = "loop"
    /\ \E it \in {Iterate(observations, fixed_points, current_heights, check_stability)} :
           /\ iteration' = iteration + 1
           /\ kernel_err' = it.kernel.err
           /\ kernel_log' = kernel_log \o it.kernel.log
           /\ current_heights' = it.heights
           /\ IF it.kernel.err # "none"
              THEN /\ error' = AdjustReraise(it.kernel.err)
                   /\ pc' = "raised"
                   /\ UNCHANGED loc
              ELSE /\ loc' = [A |-> it.A, L |-> it.L, P |-> it.P, dX |-> it.kernel.X,
                              sigma_0_final_squared |-> it.kernel.sigma_0_squared,
                              stability_info |-> it.kernel.stability_info]
                   /\ pc' = IF it.converged \/ iteration + 1 = max_iterations
                            THEN "after_loop" ELSE "loop"
                   /\ UNCHANGED error
    /\ UNCHANGED <<observations, fixed_points, approximate_heights, max_iterations,
                   check_stability, result, condVars, lineVars, loopVars, cfgVars, coordVars>>

\* lines 221-268: statistics and the returned AdjustmentResult
AdjustFinish ==
    /\ pc = "after_loop"
    /\ result' = <<BuildResult(observations, fixed_points, current_heights, iteration,
                               loc.A, loc.L, loc.P, loc.dX)>>
    /\ pc' = "returned"
    /\ UNCHANGED <<observations, fixed_points, approximate_heights, max_iterations,
                   check_stability, current_heights, iteration, loc, error,
                   kernVars, condVars, lineVars, loopVars, cfgVars, coordVars>>

NextLSA == AdjustValidate \/ AdjustIterate \/ AdjustFinish

SpecLSA == InitLSA /\ [][NextLSA]_vars

----------------------------------------------------------------------------
(* ConditionalAdjuster.adjust_loops as a state machine *)

InitCond ==
    /\ lines \in SeqsUpTo(LineChoices, MaxLines)
    /\ loops \in SeqsUpTo(LoopChoices, MaxLoops)
    /\ cond_fixed \in CondFixedChoices
    /\ cond_pc = "start"
    /\ cond_loc = <<>> /\ cond_error = "none" /\ cond_result = None
    /\ KernelIdle /\ LsaIdle /\ LineIdle /\ LoopIdle /\ CfgIdle /\ CoordIdle

\* lines 352-422, with the default check_stability = True: the kernel call
\* and the adjusted observations
AdjustLoopsCall ==
    /\ cond_pc = "start"
    /\ \E r \in {AdjustLoops(lines, loops, TRUE)} :
           /\ kernel_err' = r.kernel.err
           /\ kernel_log' = r.kernel.log
           /\ cond_loc' = [B |-> r.B, w |-> r.w, P |-> r.P,
                           v |-> IF r.kernel.err = "none" THEN r.kernel.v ELSE <<>>,
                           sigma_0_squared |-> IF r.kernel.err = "none"
                                               THEN r.kernel.sigma_0_squared ELSE R(0),
                           adjusted_obs |-> r.adjusted_obs,
                           current_heights |-> <<>>, iteration |-> 0]
           /\ cond_error' = r.err
           /\ cond_pc' = IF r.err = "none" THEN "heights" ELSE "raised"
    /\ UNCHANGED <<lines, loops, cond_fixed, cond_result, lsaVars, lineVars, loopVars, cfgVars, coordVars>>

\* lines 424-430: without fixed points the heights are {} and the result is
\* built; with fixed points _calculate_heights_from_adjusted enters
\* LeastSquaresAdjuster(check_stability=False).adjust on the adjusted
\* observations, whose argument checks may raise
CalculateHeightsCall ==
    /\ cond_pc = "heights"
    /\ IF DOMAIN cond_fixed = {}
       THEN /\ cond_result' = <<LoopsResult(lines, cond_loc.v, cond_loc.sigma_0_squared, <<>>)>>
            /\ cond_pc' = "returned"
            /\ UNCHANGED <<cond_loc, cond_error>>
       ELSE IF ValidateArguments(cond_loc.adjusted_obs, cond_fixed) # "none"
       THEN /\ cond_error' = ValidateArguments(cond_loc.adjusted_obs, cond_fixed)
            /\ cond_pc' = "raised"
            /\ UNCHANGED <<cond_loc, cond_result>>
       ELSE /\ cond_loc' = [cond_loc EXCEPT !.current_heights =
                               InitialHeights(cond_loc.adjusted_obs, cond_fixed, None)]
            /\ cond_pc' = "iterating"
            /\ UNCHANGED <<cond_error, cond_result>>
    /\ UNCHANGED <<lines, loops, cond_fixed, lsaVars, kernVars, lineVars, loopVars, cfgVars, coordVars>>

\* one iteration of that adjust call (max_iterations = 10); its last one
\* returns the heights, and adjust_loops builds its result
CalculateHeightsIterate ==
    /\ cond_pc = "iterating"
    /\ cond_loc.iteration < DefaultMaxIterations
    /\ \E it \in {Iterate(cond_loc.adjusted_obs, cond_fixed, cond_loc.current_heights, FALSE)} :
           /\ cond_loc' = [cond_loc EXCEPT !.current_heights = it.heights,
                                           !.iteration = cond_loc.iteration + 1]
           /\ IF it.kernel.err # "none"
              THEN /\ cond_error' = AdjustReraise(it.kernel.err)
                   /\ cond_pc' = "raised"
                   /\ UNCHANGED cond_result
              ELSE IF it.converged \/ cond_loc.iteration + 1 = DefaultMaxIterations
              THEN /\ cond_result' = <<LoopsResult(lines, cond_loc.v,
                                                   cond_loc.sigma_0_squared, it.heights)>>
                   /\ cond_pc' = "returned"
                   /\ UNCHANGED cond_error
              ELSE /\ cond_pc' = "iterating"
                   /\ UNCHANGED <<cond_error, cond_result>>
    /\ UNCHANGED <<lines, loops, cond_fixed, lsaVars, kernVars, lineVars, loopVars, cfgVars, coordVars>>

NextCond ==
    \/ AdjustLoopsCall
    \/ CalculateHeightsCall
    \/ CalculateHeightsIterate

SpecCond == InitCond /\ [][NextCond]_vars

----------------------------------------------------------------------------
(* Both network adjusters, one call of either *)

InitNet == InitLSA \/ InitCond
NextNet == NextLSA \/ NextCond
SpecNet == InitNet /\ [][NextNet]_vars

----------------------------------------------------------------------------
(* One LevelingLine under the height utilities and LineAdjuster *)

LineMethods == {"BF", "FB", "BFFB"}
TurningPoints == <<"T1", "T2", "T3">>

\* what one station setup measured; a setup built without readings keeps
\* height_diff None (StationSetup.__post_init__)
SetupMeasures ==
    {[height_diff |-> R(1), distance_back |-> R(10), distance_fore |-> R(10)],
     [height_diff |-> R(-2), distance_back |-> R(20), distance_fore |-> R(40)],
     [height_diff |-> None, distance_back |-> R(10), distance_fore |-> R(10)]}

\* a total distance read from the file instead of derived from the setups
ParsedDistances == {R(100)}

MakeSetups(ms) ==
    Eager([i \in 1..Len(ms) |->
        [from_point |-> IF i = 1 THEN "A" ELSE TurningPoints[i - 1],
         to_point |-> IF i = Len(ms) THEN "B" ELSE TurningPoints[i],
         height_diff |-> ms[i].height_diff,
         distance_back |-> ms[i].distance_back,
         distance_fore |-> ms[i].distance_fore,
         cumulative_height |-> None]])

\* a line as a parser hands it over: totals from calculate_totals, the total
\* distance possibly replaced by the parsed one
ParsedLines ==
    {[start_point |-> "A", end_point |-> "B", method |-> m, setups |-> MakeSetups(ms),
      total_distance |-> R(0), total_height_diff |-> R(0)] :
        m \in LineMethods, ms \in SeqsUpTo(SetupMeasures, MaxSetups)}

CorrectionAt(i) == Norm(IF i % 2 = 1 THEN -i ELSE i, 2)
CorrectionLists == {Eager([i \in 1..k |-> CorrectionAt(i)]) : k \in 0..(MaxSetups + 1)}
Misclosures == {R(3), <<-1, 1000>>}
DistributionMethods == {"proportional", "equal"}
Benchmarks == {[point_id |-> "A", height |-> R(100)], [point_id |-> "B", height |-> R(101)],
               [point_id |-> "B", height |-> R(100)], [point_id |-> "A", height |-> R(101)]}
BenchmarkPairs ==
    {bp \in Benchmarks \X Benchmarks : bp[1].height = R(100) /\ bp[2].height = R(101)}

\* the last two operations, each with the line it found and its arguments
Record(op, arg) ==
    LET t == Append(trail, [op |-> op, before |-> line, arg |-> arg])
    IN  IF Len(t) > 2 THEN SubSeq(t, Len(t) - 1, Len(t)) ELSE t

InitLine ==
    /\ LsaIdle /\ CondIdle /\ KernelIdle /\ LoopIdle /\ CfgIdle /\ CoordIdle
    /\ \E raw \in ParsedLines, parsed \in BOOLEAN :
          /\ line = IF parsed
                    THEN [CalculateTotals(raw) EXCEPT
                            !.total_distance = CHOOSE d \in ParsedDistances : TRUE]
                    ELSE CalculateTotals(raw)
          /\ totals_calculated = ~parsed
    /\ line_error = "none" /\ corrections = <<>> /\ adjustment_info = None
    /\ trail = <<>> /\ n_ops = 0

Step(op, arg) ==
    /\ n_ops < MaxOps
    /\ n_ops' = n_ops + 1
    /\ trail' = Record(op, arg)
    /\ UNCHANGED <<lsaVars, kernVars, condVars, loopVars, cfgVars, coordVars>>

CalculateTotalsCall ==
    /\ Step("calculate_totals", <<>>)
    /\ line' = CalculateTotals(line)
    /\ totals_calculated' = TRUE
    /\ line_error' = "none"
    /\ UNCHANGED <<corrections, adjustment_info>>

ToggleDirectionCall ==
    /\ Step("toggle_direction", <<>>)
    /\ line' = ToggleDirection(line)
    /\ line_error' = "none"
    /\ UNCHANGED <<corrections, adjustment_info, totals_calculated>>

DistributeMisclosureCall ==
    \E misclosure \in Misclosures, method \in DistributionMethods :
        /\ Step("distribute_misclosure", [misclosure |-> misclosure, method |-> method])
        /\ corrections' = DistributeMisclosure(line, misclosure, method)
        /\ line_error' = "none"
        /\ UNCHANGED <<line, adjustment_info, totals_calculated>>

ApplyCorrectionsCall ==
    \E corrs \in CorrectionLists :
        /\ Step("apply_corrections", corrs)
        /\ \E applied \in {ApplyCorrections(line, corrs)} :
              /\ line' = applied.line
              /\ line_error' = applied.err
        /\ UNCHANGED <<corrections, adjustment_info, totals_calculated>>

LineAdjustCall ==
    \E bp \in BenchmarkPairs :
        /\ Step("adjust", [start_benchmark |-> bp[1], end_benchmark |-> bp[2]])
        /\ \E adjusted \in {LineAdjust(line, bp[1], bp[2])} :
              /\ line' = adjusted.line
              /\ line_error' = adjusted.err
              /\ adjustment_info' = adjusted.info
        /\ UNCHANGED <<corrections, totals_calculated>>

NextLine ==
    \/ CalculateTotalsCall
    \/ ToggleDirectionCall
    \/ DistributeMisclosureCall
    \/ ApplyCorrectionsCall
    \/ LineAdjustCall

SpecLine == InitLine /\ [][NextLine]_vars

----------------------------------------------------------------------------
(* A LoopAnalyzer over a network of lines: find_loops, find_basis_loops,   *)
(* detect_double_runs and analyze_double_run                               *)

\* the lines networks are built from: a double-run A-B with a second
\* forward run, the triangle A-B-C, the triangle B-D-C and a run A-C that
\* agrees with the heights A-B and B-C give
LinePool ==
    << [start_point |-> "A", end_point |-> "B",
        total_height_diff |-> R(1), total_distance |-> R(1000)],
       [start_point |-> "A", end_point |-> "B",
        total_height_diff |-> <<6, 5>>, total_distance |-> R(1000)],
       [start_point |-> "B", end_point |-> "A",
        total_height_diff |-> <<-497, 500>>, total_distance |-> R(3000)],
       [start_point |-> "B", end_point |-> "C",
        total_height_diff |-> <<1, 2>>, total_distance |-> R(1000)],
       [start_point |-> "C", end_point |-> "A",
        total_height_diff |-> <<-8, 5>>, total_distance |-> R(1000)],
       [start_point |-> "B", end_point |-> "D",
        total_height_diff |-> <<3, 10>>, total_distance |-> R(1000)],
       [start_point |-> "D", end_point |-> "C",
        total_height_diff |-> <<27, 100>>, total_distance |-> R(1000)],
       [start_point |-> "A", end_point |-> "C",
        total_height_diff |-> <<3, 2>>, total_distance |-> R(1000)] >>

\* the pool lines at the positions S, in pool order
RECURSIVE PoolLines(_)
PoolLines(S) ==
    IF S = {} THEN <<>>
    ELSE <<LinePool[CHOOSE i \in S : \A j \in S : i <= j]>>
           \o PoolLines(S \ {CHOOSE i \in S : \A j \in S : i <= j})

Networks ==
    {PoolLines(S) : S \in {T \in SUBSET (1..Len(LinePool)) : Cardinality(T) <= MaxNetLines}}

\* the orders in which a set of points can be iterated
IterationOrders(P) ==
    {o \in [1..Cardinality(P) -> P] : \A i, j \in 1..Cardinality(P) : o[i] = o[j] => i = j}

MaxLoopSizes == {2, 3, DefaultMaxLoopSize}
TargetClasses == {1, 4, 7}

InitLoops ==
    /\ LsaIdle /\ CondIdle /\ KernelIdle /\ LineIdle /\ CfgIdle /\ CoordIdle
    /\ net_lines \in Networks
    /\ point_order \in IterationOrders(GraphPoints(net_lines))
    /\ loop_max_size \in MaxLoopSizes
    /\ loop_pc = "start"
    /\ found_loops = None /\ minimum_loops = None /\ double_runs = None
    /\ double_run_analysis = None

\* LoopAnalyzer.find_loops(max_size)
FindLoopsCall ==
    /\ loop_pc = "start"
    /\ found_loops' = FindAllLoops(net_lines, point_order, loop_max_size)
    /\ loop_pc' = "found"
    /\ UNCHANGED <<net_lines, point_order, loop_max_size, minimum_loops, double_runs,
                   double_run_analysis, lsaVars, kernVars, condVars, lineVars, cfgVars, coordVars>>

\* LoopAnalyzer.find_basis_loops()
FindBasisLoopsCall ==
    /\ loop_pc = "found"
    /\ minimum_loops' = FindMinimumLoops(net_lines, point_order)
    /\ loop_pc' = "basis"
    /\ UNCHANGED <<net_lines, point_order, loop_max_size, found_loops, double_runs,
                   double_run_analysis, lsaVars, kernVars, condVars, lineVars, cfgVars, coordVars>>

\* detect_double_runs(lines)
DetectDoubleRunsCall ==
    /\ loop_pc = "basis"
    /\ double_runs' = DetectDoubleRuns(net_lines, 1, {}, <<>>)
    /\ loop_pc' = "paired"
    /\ UNCHANGED <<net_lines, point_order, loop_max_size, found_loops, minimum_loops,
                   double_run_analysis, lsaVars, kernVars, condVars, lineVars, cfgVars, coordVars>>

\* analyze_double_run on a detected pair, or on the first two lines
AnalyzeDoubleRunCall ==
    /\ loop_pc = "paired"
    /\ \E pair \in {double_runs[k] : k \in 1..Len(double_runs)}
                     \cup {p \in {<<1, 2>>} : Len(net_lines) >= 2},
          target_class \in TargetClasses :
          double_run_analysis' =
              [line1 |-> pair[1], line2 |-> pair[2],
               result |-> AnalyzeDoubleRun(net_lines[pair[1]], net_lines[pair[2]],
                                           target_class)]
    /\ loop_pc' = "analyzed"
    /\ UNCHANGED <<net_lines, point_order, loop_max_size, found_loops, minimum_loops,
                   double_runs, lsaVars, kernVars, condVars, lineVars, cfgVars, coordVars>>

NextLoops ==
    \/ FindLoopsCall
    \/ FindBasisLoopsCall
    \/ DetectDoubleRunsCall
    \/ AnalyzeDoubleRunCall

SpecLoops == InitLoops /\ [][NextLoops]_vars

----------------------------------------------------------------------------
(* User settings (settings_manager.py, israel_survey_regulations.py) and   *)
(* LevelingValidator.__init__.  The settings file is None when it does not *)
(* exist, otherwise <<the JSON object it holds>>.                          *)

ClassNames == <<"H1", "H2", "H3", "H4", "H5", "H6">>

\* int(class_name[1]) for a class name of the registry
ClassNumber(class_name) == CHOOSE c \in 1..Len(ClassNames) : ClassNames[c] = class_name

\* SettingsManager._load_settings_file
LoadSettingsFile(file) == IF file = None THEN <<>> ELSE file[1]

\* SettingsManager.get_default_class, and get_default_class over it
GetDefaultClass(file) ==
    LET default_class == IF "default_class" \in DOMAIN LoadSettingsFile(file)
                         THEN LoadSettingsFile(file).default_class ELSE "H3"
    IN  IF ~InSeq(ClassNames, default_class) THEN "H3" ELSE default_class

\* SettingsManager.set_default_class(class_name); written tells whether the
\* file could be opened for writing
SetDefaultClass(file, class_name, written) ==
    IF ~InSeq(ClassNames, class_name) THEN [ret |-> FALSE, file |-> file]
    ELSE IF ~written THEN [ret |-> FALSE, file |-> file]
    ELSE [ret |-> TRUE,
          file |-> <<[version |-> "1.0",
                      format |-> "geodetic_tool_class_parameters",
                      default_class |-> class_name,
                      class_parameters |->
                          IF "class_parameters" \in DOMAIN LoadSettingsFile(file)
                          THEN LoadSettingsFile(file).class_parameters ELSE <<>>]>>]

\* save_class_parameters writing "H3" whatever the file holds
SaveClassParameters_DropDefault(file, class_params_dict, written) ==
    IF ~written THEN [ret |-> FALSE, file |-> file]
    ELSE [ret |-> TRUE,
          file |-> <<[version |-> "1.0",
                      format |-> "geodetic_tool_class_parameters",
                      default_class |-> "H3",
                      class_parameters |-> class_params_dict]>>]

\* SettingsManager.save_class_parameters(class_params_dict); the dictionary
\* is modelled by the list of the class names it has an entry for
SaveClassParameters(file, class_params_dict, written) ==
    IF ~written THEN [ret |-> FALSE, file |-> file]
    ELSE [ret |-> TRUE,
          file |-> <<[version |-> "1.0",
                      format |-> "geodetic_tool_class_parameters",
                      default_class |->
                          IF "default_class" \in DOMAIN LoadSettingsFile(file)
                          THEN LoadSettingsFile(file).default_class ELSE "H3",
                      class_parameters |-> class_params_dict]>>]

\* SettingsManager.reset_to_defaults; removed tells whether an existing file
\* could be unlinked
ResetToDefaults(file, removed) ==
    IF file = None THEN [ret |-> TRUE, file |-> None]
    ELSE IF removed THEN [ret |-> TRUE, file |-> None]
    ELSE [ret |-> FALSE, file |-> file]

\* the default of the parameter leveling_class of LevelingValidator.__init__
ValidatorDefaultClass == 3

\* LevelingValidator(leveling_class, use_new_regulations); leveling_class is
\* None when the argument is left out, <<class>> otherwise
NewLevelingValidator(file, leveling_class, use_new_regulations) ==
    LET class == IF leveling_class = None THEN ValidatorDefaultClass ELSE leveling_class[1]
    IN  [leveling_class |-> class,
         use_new_regulations |-> use_new_regulations,
         class_params |-> IF use_new_regulations /\ InRegistry(class)
                          THEN <<ClassNames[class]>> ELSE None]

\* the settings files found at start: none, one written by
\* save_class_parameters alone, one with a default class, one with an
\* unknown default class
InitialSettingsFiles ==
    {None,
     <<[version |-> "1.0", format |-> "geodetic_tool_class_parameters",
        class_parameters |-> <<>>]>>,
     <<[version |-> "1.0", format |-> "geodetic_tool_class_parameters",
        default_class |-> "H2", class_parameters |-> <<>>]>>,
     <<[version |-> "1.0", format |-> "geodetic_tool_class_parameters",
        default_class |-> "H9", class_parameters |-> <<>>]>>}

InitSettings ==
    /\ LsaIdle /\ CondIdle /\ KernelIdle /\ LineIdle /\ LoopIdle /\ CoordIdle
    /\ settings_file \in InitialSettingsFiles
    /\ validator = None
    /\ cfg_call = None
    /\ last_set = IF settings_file = None THEN "none" ELSE "unknown"

SetDefaultClassCall ==
    /\ \E class_name \in {ClassNames[c] : c \in 1..Len(ClassNames)} \cup {"H7"},
          written \in BOOLEAN :
          \E r \in {SetDefaultClass(settings_file, class_name, written)} :
              /\ settings_file' = r.file
              /\ cfg_call' = [op |-> "set_default_class", arg |-> <<class_name>>,
                              ret |-> <<r.ret>>]
              /\ last_set' = IF r.ret THEN class_name ELSE last_set
    /\ UNCHANGED <<validator, lsaVars, kernVars, condVars, lineVars, loopVars, coordVars>>

ClassParamsDicts == {<<>>, <<"H1">>, <<"H1", "H4">>}

SaveClassParametersCall ==
    /\ \E class_params_dict \in ClassParamsDicts, written \in BOOLEAN :
          \E r \in {SaveClassParameters(settings_file, class_params_dict, written)} :
              /\ settings_file' = r.file
              /\ cfg_call' = [op |-> "save_class_parameters",
                              arg |-> class_params_dict, ret |-> <<r.ret>>]
    /\ UNCHANGED <<validator, last_set, lsaVars, kernVars, condVars, lineVars,
                   loopVars, coordVars>>

ResetToDefaultsCall ==
    /\ \E removed \in BOOLEAN :
          \E r \in {ResetToDefaults(settings_file, removed)} :
              /\ settings_file' = r.file
              /\ cfg_call' = [op |-> "reset_to_defaults", arg |-> None,
                              ret |-> <<r.ret>>]
              /\ last_set' = IF r.ret THEN "none" ELSE last_set
    /\ UNCHANGED <<validator, lsaVars, kernVars, condVars, lineVars, loopVars, coordVars>>

GetDefaultClassCall ==
    /\ cfg_call' = [op |-> "get_default_class", arg |-> None,
                    ret |-> <<GetDefaultClass(settings_file)>>]
    /\ UNCHANGED <<settings_file, validator, last_set, lsaVars, kernVars, condVars,
                   lineVars, loopVars, coordVars>>

LevelingValidatorCall ==
    /\ \E given \in BOOLEAN, class \in 1..(Len(ClassNames) + 1),
          use_new_regulations \in BOOLEAN :
          \E leveling_class \in {IF given THEN <<class>> ELSE None} :
              /\ validator' = <<NewLevelingValidator(settings_file, leveling_class,
                                                     use_new_regulations)>>
              /\ cfg_call' = [op |-> "LevelingValidator", arg |-> leveling_class,
                              ret |-> None]
    /\ UNCHANGED <<settings_file, last_set, lsaVars, kernVars, condVars, lineVars,
                   loopVars, coordVars>>

NextSettings ==
    \/ SetDefaultClassCall
    \/ SaveClassParametersCall
    \/ ResetToDefaultsCall
    \/ GetDefaultClassCall
    \/ LevelingValidatorCall

SpecSettings == InitSettings /\ [][NextSettings]_vars

----------------------------------------------------------------------------
(* LineCoordinator (line_coordinator.py) over lines built from             *)
(* StationSetups with rod readings, and calculate_line_totals              *)
(* (height_calculator.py).  A candidate names its lines by their position  *)
(* in the coordinator's list.                                              *)

\* the members of the enum LineStatus
LineStatusMembers ==
    {"VALID", "INVALID_ENDPOINT", "NAMING_ERROR", "INCOMPLETE", "EXCEEDED_TOLERANCE"}

\* StationSetup(...) followed by __post_init__: a missing height_diff is
\* derived when both readings are truthy
NewStationSetup(setup_number, from_point, to_point, backsight_reading, foresight_reading, distance_back, distance_fore, height_diff) ==
    [setup_number |-> setup_number, from_point |-> from_point, to_point |-> to_point,
     backsight_reading |-> backsight_reading, foresight_reading |-> foresight_reading,
     distance_back |-> distance_back, distance_fore |-> distance_fore,
     height_diff |-> IF height_diff = None /\ backsight_reading # R(0)
                        /\ foresight_reading # R(0)
                     THEN RSub(backsight_reading, foresight_reading)
                     ELSE height_diff,
     cumulative_height |-> None]

\* what one setup adds to total_height_diff in calculate_line_totals
LineTotalsDiff(setup) ==
    IF setup.height_diff # None THEN setup.height_diff
    ELSE IF setup.backsight_reading # R(0) /\ setup.foresight_reading # R(0)
    THEN RSub(setup.backsight_reading, setup.foresight_reading)
    ELSE R(0)

\* calculate_line_totals(line)
CalculateLineTotals(ln) ==
    <<SumOver(ln.setups, SetupDist), SumOver(ln.setups, LineTotalsDiff)>>

\* merge_lines, lines 238-248: the setups of the i-th line and of the lines
\* after it, copied, those of a line to reverse taken from a toggled copy
RECURSIVE CollectSetups(_, _, _)
CollectSetups(ls, candidate, i) ==
    IF i > Len(candidate.lines) THEN <<>>
    ELSE (IF candidate.reverse_flags[i]
          THEN ToggleDirection(ls[candidate.lines[i]]).setups
          ELSE ls[candidate.lines[i]].setups)
         \o CollectSetups(ls, candidate, i + 1)

\* merge_lines, lines 250-257: setups renumbered, cumulative heights set
\* where a height difference is present
Renumbered(setups) ==
    Eager([k \in 1..Len(setups) |->
        [setups[k] EXCEPT
            !.setup_number = k,
            !.cumulative_height =
                IF setups[k].height_diff # None
                THEN RSumSeq(HeightDiffs(SubSeq(setups, 1, k)))
                ELSE setups[k].cumulative_height]])

\* merge_lines, lines 215-288: the merged line
MergedLine(ls, candidate, merged_filename) ==
    LET first_line == ls[candidate.lines[1]]
        last_line == ls[candidate.lines[Len(candidate.lines)]]
        merged_start == IF candidate.reverse_flags[1]
                        THEN first_line.end_point ELSE first_line.start_point
        merged_end == IF candidate.reverse_flags[Len(candidate.lines)]
                      THEN last_line.start_point ELSE last_line.end_point
    IN  CalculateTotals(
            [filename |-> IF merged_filename = None
                          THEN <<"MERGED", merged_start, merged_end>>
                          ELSE merged_filename,
             start_point |-> merged_start, end_point |-> merged_end,
             setups |-> Renumbered(CollectSetups(ls, candidate, 1)),
             method |-> "BF", total_distance |-> R(0), total_height_diff |-> R(0),
             status |-> "VALID", is_used |-> TRUE])

\* LineCoordinator.merge_lines(candidate, merged_filename)
MergeLines(ls, history, candidate, merged_filename) ==
    IF ~candidate.is_valid \/ Len(candidate.lines) < 2
    THEN [err |-> "ValueError", history |-> history, ret |-> <<>>]
    ELSE [err |-> "none",
          history |-> Append(history,
              [merged_line |-> MergedLine(ls, candidate, merged_filename),
               source_lines |-> candidate.lines,
               reverse_flags |-> candidate.reverse_flags]),
          ret |-> <<MergedLine(ls, candidate, merged_filename)>>]

\* LineCoordinator.apply_merge(candidate, target_list, merged_filename).
\* Line 340 reads LineStatus.EXCLUDED_FROM_MERGE: with no such member the
\* attribute lookup raises AttributeError in the first pass of the loop,
\* after line 339 has cleared is_used of the first line.
ApplyMerge(ls, history, target, candidate, merged_filename) ==
    LET merged == MergeLines(ls, history, candidate, merged_filename)
    IN  IF merged.err # "none"
        THEN [err |-> merged.err, lines |-> ls, history |-> history,
              target |-> target, ret |-> <<>>]
        ELSE IF "EXCLUDED_FROM_MERGE" \in LineStatusMembers
        THEN [err |-> "none",
              lines |-> [i \in 1..Len(ls) |->
                            IF InSeq(candidate.lines, i)
                            THEN [ls[i] EXCEPT !.is_used = FALSE,
                                               !.status = "EXCLUDED_FROM_MERGE"]
                            ELSE ls[i]],
              history |-> merged.history,
              target |-> Append(target, merged.ret[1]),
              ret |-> merged.ret]
        ELSE [err |-> "AttributeError",
              lines |-> [ls EXCEPT ![candidate.lines[1]].is_used = FALSE],
              history |-> merged.history,
              target |-> target, ret |-> <<>>]

\* the segments a coordinator is given: A->B, B->C with a backsight reading
\* of 0.0 on its first setup, and C->B
SegmentPool ==
    << [filename |-> <<"L1">>, start_point |-> "A", end_point |-> "B",
        setups |-> <<NewStationSetup(1, "A", "B", <<3, 2>>, <<1, 2>>, R(10), R(10), None)>>,
        method |-> "BF", total_distance |-> R(0), total_height_diff |-> R(0),
        status |-> "VALID", is_used |-> TRUE],
       [filename |-> <<"L2">>, start_point |-> "B", end_point |-> "C",
        setups |-> <<NewStationSetup(1, "B", "T1", R(0), <<3, 2>>, R(20), R(40), None),
                     NewStationSetup(2, "T1", "C", R(2), R(1), R(10), R(10), None)>>,
        method |-> "BF", total_distance |-> R(0), total_height_diff |-> R(0),
        status |-> "VALID", is_used |-> TRUE],
       [filename |-> <<"L3">>, start_point |-> "C", end_point |-> "B",
        setups |-> <<NewStationSetup(1, "C", "B", R(1), R(3), R(20), R(40), R(-2))>>,
        method |-> "FB", total_distance |-> R(0), total_height_diff |-> R(0),
        status |-> "VALID", is_used |-> TRUE] >>

\* the lists of parsed segments a coordinator is constructed with: two or
\* more segments of the pool, in pool order
SegmentLists ==
    {[i \in 1..Len(a) |-> CalculateTotals(SegmentPool[a[i]])] :
        a \in {b \in UNION {[1..k -> 1..Len(SegmentPool)] : k \in 2..MaxSegments} :
                  \A i, j \in 1..Len(b) : i < j => b[i] < b[j]}}

\* the orders in which a candidate lists the coordinator's lines
CandidateOrders(ls) == {[i \in 1..k |-> i] : k \in 1..Len(ls)} \cup {<<2, 1>>}

\* the merge candidates over a coordinator's lines: a chain with or without
\* a reversal of its last line, and one candidate marked invalid
MergeCandidates(ls) ==
    {[lines |-> a, reverse_flags |-> [i \in 1..Len(a) |-> rev /\ i = Len(a)],
      is_valid |-> TRUE] : a \in CandidateOrders(ls), rev \in BOOLEAN}
    \cup {[lines |-> <<1, 2>>, reverse_flags |-> <<FALSE, FALSE>>, is_valid |-> FALSE]}

MergedFilenames == {None, <<"JOINED">>}

InitCoord ==
    /\ LsaIdle /\ CondIdle /\ KernelIdle /\ LineIdle /\ LoopIdle /\ CfgIdle
    /\ coord_lines \in SegmentLists
    /\ target_list = <<>>
    /\ merge_history = <<>>
    /\ coord_call = NoCall
    /\ n_calls = 0

CoordStep ==
    /\ n_calls < MaxCalls
    /\ n_calls' = n_calls + 1
    /\ UNCHANGED <<lsaVars, kernVars, condVars, lineVars, loopVars, cfgVars>>

MergeLinesCall ==
    /\ CoordStep
    /\ \E candidate \in MergeCandidates(coord_lines), merged_filename \in MergedFilenames :
          \E r \in {MergeLines(coord_lines, merge_history, candidate, merged_filename)} :
              /\ merge_history' = r.history
              /\ coord_call' = [op |-> "merge_lines", arg |-> <<candidate>>,
                                err |-> r.err, ret |-> r.ret]
    /\ UNCHANGED <<coord_lines, target_list>>

ApplyMergeCall ==
    /\ CoordStep
    /\ \E candidate \in MergeCandidates(coord_lines) :
          \E r \in {ApplyMerge(coord_lines, merge_history, target_list, candidate, None)} :
              /\ coord_lines' = r.lines
              /\ merge_history' = r.history
              /\ target_list' = r.target
              /\ coord_call' = [op |-> "apply_merge", arg |-> <<candidate>>,
                                err |-> r.err, ret |-> r.ret]

\* calculate_line_totals on a line of the coordinator or on a merged line
CalculateLineTotalsCall ==
    /\ CoordStep
    /\ \E ln \in {coord_lines[i] : i \in 1..Len(coord_lines)}
                   \cup {merge_history[k].merged_line : k \in 1..Len(merge_history)} :
          coord_call' = [op |-> "calculate_line_totals", arg |-> <<ln>>,
                         err |-> "none", ret |-> CalculateLineTotals(ln)]
    /\ UNCHANGED <<coord_lines, target_list, merge_history>>

NextCoord ==
    \/ MergeLinesCall
    \/ ApplyMergeCall
    \/ CalculateLineTotalsCall

SpecCoord == InitCoord /\ [][NextCoord]_vars

----------------------------------------------------------------------------
(* Properties *)

Unknowns == UnknownList(observations, fixed_points)
Terminated == pc \in {"raised", "returned"}

\* C1: in every state of an adjust call, whatever the number of iterations
\* performed, each fixed point keeps exactly its input height, and a returned
\* result lists every fixed point with that height.
Theorem_C1 ==
    /\ pc \in {"loop", "after_loop", "raised", "returned"} /\ current_heights # <<>>
         => \A p \in DOMAIN fixed_points : current_heights[p] = fixed_points[p]
    /\ result # None
         => \A p \in DOMAIN fixed_points :
               /\ p \in DOMAIN result[1].adjusted_heights
               /\ result[1].adjusted_heights[p] = fixed_points[p]

\* a returned result after two iterations in which an unknown point moved
Witness_C1 ==
    /\ result # None
    /\ result[1].iteration = 2
    /\ \E p \in DOMAIN result[1].adjusted_heights :
          /\ p \notin DOMAIN fixed_points
          /\ result[1].adjusted_heights[p] #
                InitialHeights(observations, fixed_points, approximate_heights)[p]

\* the normal matrix A^T P A of the network
NormalMatrix(obs, fixed) ==
    (LET A == DesignMatrix(obs, UnknownList(obs, fixed)) IN
        MatMul(MatMul(Transpose(A, Len(UnknownList(obs, fixed))), WeightMatrix(obs),
                      Len(obs), Len(obs)),
               A, Len(obs), Len(UnknownList(obs, fixed))))

\* enough observations, but a rank-deficient design matrix
SingularNetwork ==
    /\ ValidateArguments(observations, fixed_points) = "none"
    /\ Len(observations) > Len(Unknowns)
    /\ Det(NormalMatrix(observations, fixed_points))[1] = 0

\* C2 (as claimed): after run_conditional_adjustment succeeds the residuals
\* satisfy B.v + w = 0 for every condition, and the adjusted observations of
\* every loop sum to zero.
Claim_C2 ==
    cond_pc \notin {"idle", "start"} /\ kernel_err = "none"
      => \A c \in 1..Len(loops) :
            /\ RAdd(Dot(cond_loc.B[c], cond_loc.v), cond_loc.w[c]) = R(0)
            /\ SumOver(InRange(loops[c], Len(lines)),
                       LAMBDA line_idx : cond_loc.adjusted_obs[line_idx + 1].height_diff) = R(0)

\* C3 (as claimed): an adjust call on a rank-deficient network ends with the
\* SingularMatrixError kind reaching the caller and no result.
Claim_C3 ==
    Terminated /\ SingularNetwork
      => error = "SingularMatrixError" /\ result = None

\* C4 (as claimed): adjust on any network with observations <= unknown points
\* ends with InsufficientObservationsError and no result.
Claim_C4 ==
    Terminated /\ Len(observations) <= Len(Unknowns)
      => error = "InsufficientObservationsError" /\ result = None

\* C4 (amended): either kernel raises InsufficientObservationsError before any
\* normal-equation work; run_conditional_adjustment does so whenever
\* rows(B) >= cols(B); and adjust, given at least one observation and one fixed
\* point, with observations <= unknown points, ends in its first iteration
\* with InsufficientObservationsError and no result.
Theorem_C4 ==
    /\ kernel_err = "InsufficientObservationsError" => kernel_log = <<>>
    /\ (observations # <<>> /\ DOMAIN fixed_points # {}
          /\ Len(observations) <= Len(Unknowns))
         => /\ pc = "loop" => iteration = 0
            /\ pc \notin {"idle", "start", "loop"}
                 => /\ pc = "raised" /\ iteration = 1
                    /\ kernel_err = "InsufficientObservationsError"
                    /\ error = "InsufficientObservationsError"
                    /\ result = None
    /\ (cond_pc \notin {"idle", "start"} /\ Len(loops) >= Len(lines))
         => /\ cond_pc = "raised"
            /\ kernel_err = "InsufficientObservationsError"
            /\ kernel_log = <<>>
            /\ cond_result = None

\* adjust stopped by the redundancy check of run_linear_adjustment
Witness_C4 ==
    /\ pc = "raised" /\ iteration = 1
    /\ Len(observations) >= 1 /\ Len(observations) <= Len(Unknowns)
    /\ error = "InsufficientObservationsError"
    /\ kernel_log = <<>>

\* C5: adjust returns a result only with a non-empty fixed_points and a
\* non-empty unknown set; otherwise it raises before the first iteration.
Theorem_C5 ==
    /\ result # None => DOMAIN fixed_points # {} /\ Unknowns # <<>>
    /\ pc # "idle" /\ (DOMAIN fixed_points = {} \/ Unknowns = <<>>)
         => /\ pc \in {"start", "raised"}
            /\ iteration = 0 /\ kernel_log = <<>>
            /\ result = None
            /\ pc = "raised" => error = "ValueError"

\* observations given, no fixed point: the call has raised
Witness_C5 ==
    /\ pc = "raised" /\ error = "ValueError"
    /\ observations # <<>> /\ DOMAIN fixed_points = {}

LastOp == trail[Len(trail)]
Did(op) == trail # <<>> /\ LastOp.op = op
DidTwice(op) == Len(trail) = 2 /\ trail[1].op = op /\ trail[2].op = op

\* C6: right after a toggle_direction the line has start and end swapped,
\* every setup's from/to swapped and height_diff negated (a missing one stays
\* missing) and the total negated; right after two toggles in a row the start,
\* end, method, setups' from/to/height_diff and the total are those before the
\* first.
Theorem_C6 ==
    /\ Did("toggle_direction") =>
          /\ line.start_point = LastOp.before.end_point
          /\ line.end_point = LastOp.before.start_point
          /\ Len(line.setups) = Len(LastOp.before.setups)
          /\ \A i \in 1..Len(line.setups) :
                /\ line.setups[i].from_point = LastOp.before.setups[i].to_point
                /\ line.setups[i].to_point = LastOp.before.setups[i].from_point
                /\ line.setups[i].height_diff =
                      IF LastOp.before.setups[i].height_diff = None THEN None
                      ELSE RSub(R(0), LastOp.before.setups[i].height_diff)
          /\ line.total_height_diff = RSub(R(0), LastOp.before.total_height_diff)
    /\ DidTwice("toggle_direction") =>
          /\ line.start_point = trail[1].before.start_point
          /\ line.end_point = trail[1].before.end_point
          /\ line.method = trail[1].before.method
          /\ Len(line.setups) = Len(trail[1].before.setups)
          /\ \A i \in 1..Len(line.setups) :
                /\ line.setups[i].from_point = trail[1].before.setups[i].from_point
                /\ line.setups[i].to_point = trail[1].before.setups[i].to_point
                /\ line.setups[i].height_diff = trail[1].before.setups[i].height_diff
          /\ line.total_height_diff = trail[1].before.total_height_diff

\* a BF line of two setups with a nonzero total, toggled twice
Witness_C6 ==
    /\ DidTwice("toggle_direction")
    /\ line.method = "BF" /\ Len(line.setups) = 2
    /\ line.total_height_diff # R(0)

\* C7: right after distribute_misclosure(line, m, 'proportional') on a line
\* whose stored total distance and whose setups' distances are nonzero, there
\* is one correction per setup and the corrections sum to -m.
Claim_C7 ==
    /\ Did("distribute_misclosure")
    /\ LastOp.arg.method = "proportional"
    /\ line.total_distance # R(0)
    /\ SumOver(line.setups, SetupDist) # R(0)
    => /\ Len(corrections) = Len(line.setups)
       /\ RSumSeq(corrections) = RSub(R(0), LastOp.arg.misclosure)

\* C8: right after apply_corrections with a number of corrections other than
\* the number of setups, the call has failed with ValueError and the line is
\* the one the call found: every setup's height_diff and cumulative_height and
\* the line total are unchanged.
Theorem_C8 ==
    Did("apply_corrections") /\ Len(LastOp.arg) # Len(LastOp.before.setups)
    => /\ line_error = "ValueError"
       /\ Len(line.setups) = Len(LastOp.before.setups)
       /\ \A i \in 1..Len(line.setups) :
             /\ line.setups[i].height_diff = LastOp.before.setups[i].height_diff
             /\ line.setups[i].cumulative_height = LastOp.before.setups[i].cumulative_height
       /\ line.total_height_diff = LastOp.before.total_height_diff
       /\ line = LastOp.before

\* one correction for a line of two measured setups
Witness_C8 ==
    /\ Did("apply_corrections")
    /\ Len(LastOp.arg) = 1 /\ Len(LastOp.before.setups) = 2
    /\ \A i \in 1..2 : LastOp.before.setups[i].height_diff # None
    /\ line_error = "ValueError"

\* C9: once calculate_totals has set the totals, after any operations of the
\* line (toggle_direction, apply_corrections, also within LineAdjuster.adjust)
\* total_height_diff is the sum of the setups' height_diff values and
\* total_distance the sum of the setups' (distance_back + distance_fore)/2.
Theorem_C9 ==
    totals_calculated =>
        /\ line.total_height_diff =
              RSumTo([i \in 1..Len(line.setups) |->
                         IF line.setups[i].height_diff = None THEN R(0)
                         ELSE line.setups[i].height_diff], Len(line.setups))
        /\ line.total_distance =
              RSumTo([i \in 1..Len(line.setups) |->
                         Norm(line.setups[i].distance_back[1] * line.setups[i].distance_fore[2]
                                + line.setups[i].distance_fore[1] * line.setups[i].distance_back[2],
                              2 * line.setups[i].distance_back[2] * line.setups[i].distance_fore[2])],
                     Len(line.setups))

\* a toggle and a successful apply_corrections, in either order, on a line of
\* two setups whose totals calculate_totals set
Witness_C9 ==
    /\ totals_calculated /\ Len(trail) = 2 /\ Len(line.setups) = 2
    /\ {trail[1].op, trail[2].op} = {"toggle_direction", "apply_corrections"}
    /\ line_error = "none"
    /\ line.total_height_diff # trail[1].before.total_height_diff

\* C10: right after LineAdjuster.adjust with a start or end benchmark whose
\* point id is not the line's, the call has failed with an error, returned no
\* adjustment and the line (setups and totals) is the one the call found.
Theorem_C10 ==
    /\ Did("adjust")
    /\ \/ LastOp.before.start_point # LastOp.arg.start_benchmark.point_id
       \/ LastOp.before.end_point # LastOp.arg.end_benchmark.point_id
    => /\ line_error = "ValueError"
       /\ adjustment_info = None
       /\ line.setups = LastOp.before.setups
       /\ line.total_height_diff = LastOp.before.total_height_diff
       /\ line.total_distance = LastOp.before.total_distance

\* the start benchmark matches, the end benchmark does not, and the line has
\* a misclosure that adjust would have distributed
Witness_C10 ==
    /\ Did("adjust")
    /\ LastOp.before.start_point = LastOp.arg.start_benchmark.point_id
    /\ LastOp.before.end_point # LastOp.arg.end_benchmark.point_id
    /\ Len(line.setups) = 2
    /\ line.total_height_diff # R(1)
    /\ line_error = "ValueError"

----------------------------------------------------------------------------
(* Properties of loop detection and classification *)

\* |value| in mm is within coefficient_c * sqrt(distance in km)
ClassAdmits(c, value_mm, dist_km) ==
    RLe(RMul(value_mm, value_mm),
        RMul(R(ToleranceCoefficients[c] * ToleranceCoefficients[c]), dist_km))

\* r is the smallest class admitting the value, or 0 when none does
IsSmallestClass(r, value_mm, dist_km) ==
    \/ r = 0 /\ \A c \in 1..6 : ~ClassAdmits(c, value_mm, dist_km)
    \/ /\ r \in 1..6
       /\ ClassAdmits(r, value_mm, dist_km)
       /\ \A c \in 1..(r - 1) : ~ClassAdmits(c, value_mm, dist_km)

\* C11: the tolerance class of every loop found, and the achieved class of
\* every valid double-run analysis, is the smallest class 1..6 whose
\* tolerance coefficient * sqrt(km) is >= |misclosure in mm|, and 0 exactly
\* when no class admits it.
Theorem_C11 ==
    /\ found_loops # None =>
          \A k \in 1..Len(found_loops) :
              IsSmallestClass(ToleranceClass(found_loops[k]),
                              RAbs(RMul(found_loops[k].misclosure, R(1000))),
                              RDiv(found_loops[k].total_distance, R(1000)))
    /\ (double_run_analysis # None /\ double_run_analysis.result.valid) =>
          /\ IsSmallestClass(double_run_analysis.result.achieved_class,
                             RAbs(double_run_analysis.result.misclosure_mm),
                             RDiv(double_run_analysis.result.total_distance, R(1000)))
          /\ double_run_analysis.result.tolerance_class
                = double_run_analysis.result.achieved_class

\* a double run whose misclosure equals the H1 tolerance, in a network with a
\* loop of class 4 and a loop exceeding every class
Witness_C11 ==
    /\ double_run_analysis # None /\ double_run_analysis.result.valid
    /\ double_run_analysis.result.achieved_class = 1
    /\ RMul(double_run_analysis.result.misclosure_mm,
            double_run_analysis.result.misclosure_mm)
         = RMul(R(9), RDiv(double_run_analysis.result.total_distance, R(1000)))
    /\ \E k \in 1..Len(found_loops) : ToleranceClass(found_loops[k]) = 4
    /\ \E k \in 1..Len(found_loops) : ToleranceClass(found_loops[k]) = 0

\* the network A->B (+1.0 m), B->C (+0.5 m), C->A (-1.6 m), 1000 m each
TriangleABC == <<LinePool[1], LinePool[4], LinePool[5]>>

\* C12 (as claimed): on that network loop detection yields one loop with
\* misclosure -0.1 m over 3 km, classified as exceeding all classes (0).
Claim_C12 ==
    (found_loops # None /\ net_lines = TriangleABC) =>
        /\ Len(found_loops) = 1
        /\ found_loops[1].misclosure = <<-1, 10>>
        /\ found_loops[1].total_distance = R(3000)
        /\ ToleranceClass(found_loops[1]) = 0

\* C12 (amended): on that network loop detection yields one loop with
\* misclosure -0.1 m over 3 km; the misclosure exceeds the allowable H1
\* tolerance 3 * sqrt(3) mm, and the loop's tolerance class is 6, the first
\* class whose tolerance (60 * sqrt(3) mm) admits 100 mm.
Theorem_C12 ==
    (found_loops # None /\ net_lines = TriangleABC) =>
        /\ Len(found_loops) = 1
        /\ found_loops[1].misclosure = <<-1, 10>>
        /\ found_loops[1].total_distance = R(3000)
        /\ found_loops[1].allowable_tolerance = [coefficient |-> 3, distance_km |-> R(3)]
        /\ ~WithinTargetTolerance(RMul(found_loops[1].misclosure, R(1000)),
                                  found_loops[1].allowable_tolerance)
        /\ ToleranceClass(found_loops[1]) = 6

\* the loops of that network have been searched with the default size
Witness_C12 ==
    /\ net_lines = TriangleABC /\ loop_max_size = DefaultMaxLoopSize
    /\ found_loops # None /\ Len(found_loops) = 1

\* the positions of the lines running from p to q
RunsFromTo(p, q) ==
    {i \in 1..Len(net_lines) : net_lines[i].start_point = p /\ net_lines[i].end_point = q}

Min(a, b) == IF a <= b THEN a ELSE b

\* C13: detect_double_runs returns pairs of lines with reversed end points in
\* which every list position occurs at most once; between two points as many
\* pairs as the rarer direction has lines, so exactly one pair for A->B and
\* B->A, also with a third line matching either of them.
Theorem_C13 ==
    double_runs # None =>
        /\ \A k \in 1..Len(double_runs) :
              /\ double_runs[k][1] # double_runs[k][2]
              /\ net_lines[double_runs[k][1]].start_point
                    = net_lines[double_runs[k][2]].end_point
              /\ net_lines[double_runs[k][1]].end_point
                    = net_lines[double_runs[k][2]].start_point
        /\ \A k, m \in 1..Len(double_runs) :
              k # m => {double_runs[k][1], double_runs[k][2]}
                          \cap {double_runs[m][1], double_runs[m][2]} = {}
        /\ \A p, q \in GraphPoints(net_lines) :
              Cardinality({k \in 1..Len(double_runs) :
                              double_runs[k][1] \in RunsFromTo(p, q) \cup RunsFromTo(q, p)})
                 = IF p = q THEN Cardinality(RunsFromTo(p, p)) \div 2
                   ELSE Min(Cardinality(RunsFromTo(p, q)), Cardinality(RunsFromTo(q, p)))

\* A->B, a second A->B and B->A: one pair, the second forward run left over
Witness_C13 ==
    /\ double_runs # None /\ Len(double_runs) = 1
    /\ Cardinality(RunsFromTo("A", "B")) = 2
    /\ Cardinality(RunsFromTo("B", "A")) = 1

\* C14 (as claimed): no loop returned by find_all_loops(max_loop_size) has
\* more than max_loop_size lines.
Claim_C14 ==
    found_loops # None =>
        \A k \in 1..Len(found_loops) : Len(found_loops[k].lines) <= loop_max_size

\* the sub-network of the lines at the positions S
SubNetwork(S) ==
    [k \in 1..Cardinality(S) |->
        net_lines[CHOOSE i \in S : Cardinality({j \in S : j <= i}) = k]]

\* the lines at the positions S form a closed path through distinct points:
\* at least two lines, every point on exactly two of them, all connected
IsSimpleCycle(S) ==
    /\ Cardinality(S) >= 2
    /\ \A i, j \in S : i # j => net_lines[i] # net_lines[j]
    /\ \A p \in GraphPoints(SubNetwork(S)) :
          Cardinality({i \in S : net_lines[i].start_point = p})
            + Cardinality({i \in S : net_lines[i].end_point = p}) = 2
    /\ \A p \in GraphPoints(SubNetwork(S)) :
          DfsVisit(SubNetwork(S), {p}) = GraphPoints(SubNetwork(S))

\* C15 (as claimed): for every closed path through distinct points that uses
\* k distinct lines, 2 <= k <= max_loop_size, find_all_loops returns exactly
\* one loop with that line set; two lines joining the same two points included.
Claim_C15 ==
    found_loops # None =>
        \A S \in SUBSET (1..Len(net_lines)) :
            (IsSimpleCycle(S) /\ Cardinality(S) <= loop_max_size) =>
                Cardinality({k \in 1..Len(found_loops) :
                                LoopSignature(found_loops[k]) = S}) = 1

\* C16: find_all_loops (and find_minimum_loops on top of it) never returns
\* two loops with the same set of lines.
Theorem_C16 ==
    /\ found_loops # None =>
          \A i, j \in 1..Len(found_loops) :
              i # j => LoopSignature(found_loops[i]) # LoopSignature(found_loops[j])
    /\ minimum_loops # None =>
          \A i, j \in 1..Len(minimum_loops) :
              i # j => LoopSignature(minimum_loops[i]) # LoopSignature(minimum_loops[j])

\* the search found some cycle more than once and one loop per line set was kept
Witness_C16 ==
    /\ found_loops # None /\ Len(found_loops) >= 2
    /\ Len(FoundFromPoints(net_lines, point_order, loop_max_size, 1)) > Len(found_loops)

\* E - V + C of the network
ExpectedLoops ==
    Len(net_lines) - Cardinality(GraphPoints(net_lines))
       + CountComponents(net_lines, point_order, 1, {})

\* C17 (as claimed): find_minimum_loops returns at most E - V + C loops, the
\* enumerated loops with the fewest lines, in ascending order of line count.
Claim_C17 ==
    minimum_loops # None =>
        /\ Len(minimum_loops) <= ExpectedLoops
        /\ \A i, j \in 1..Len(minimum_loops) :
              i < j => Len(minimum_loops[i].lines) <= Len(minimum_loops[j].lines)
        /\ \A i \in 1..Len(minimum_loops) :
              \E k \in 1..Len(FindAllLoops(net_lines, point_order, DefaultMaxLoopSize)) :
                  FindAllLoops(net_lines, point_order, DefaultMaxLoopSize)[k] = minimum_loops[i]

----------------------------------------------------------------------------
(* Properties of the statistics of LeastSquaresAdjuster.adjust *)

\* C18 (as claimed): in the result of adjust, mse_heights[p] of every unknown
\* point p is the unit-weight error times sqrt(Qxx[p,p]), Qxx the inverse of
\* the final normal matrix (compared squared).
Claim_C18 ==
    (pc = "returned" /\ Det(NormalMatrix(observations, fixed_points))[1] # 0) =>
        \A j \in 1..Len(Unknowns) :
            /\ Unknowns[j] \in DOMAIN result[1].mse_heights
            /\ RMul(result[1].mse_heights[Unknowns[j]], result[1].mse_heights[Unknowns[j]])
                 = RMul(result[1].mse_unit_weight_squared,
                        Inverse(NormalMatrix(observations, fixed_points))[j][j])

----------------------------------------------------------------------------
(* Properties of the user settings *)

\* C20 (as claimed): a LevelingValidator constructed without a leveling
\* class uses the user's current default class: its leveling_class is the
\* number of that class and its class_params are those of that class.
Claim_C20 ==
    (cfg_call # None /\ cfg_call.op = "LevelingValidator" /\ cfg_call.arg = None
       /\ validator[1].use_new_regulations) =>
        /\ validator[1].leveling_class = ClassNumber(GetDefaultClass(settings_file))
        /\ validator[1].class_params = <<GetDefaultClass(settings_file)>>

----------------------------------------------------------------------------
\* C21: under any sequence of set_default_class, save_class_parameters and
\* reset_to_defaults on one settings file, get_default_class returns the name
\* given to the most recent successful set_default_class since the last
\* reset, and "H3" when there is none; set_default_class with a name outside
\* H1..H6 returns False and leaves the file as it was.
ExpectedDefaultClass == IF last_set = "none" THEN "H3" ELSE last_set

----------------------------------------------------------------------------
\* C22: with max_iterations >= 1, adjust makes at most max_iterations passes
\* of the loop, leaves the loop at the first pass whose largest absolute
\* correction is below the tolerance, and returns a result with
\* 1 <= iteration <= max_iterations; when no pass meets the tolerance it
\* returns a normal result with iteration = max_iterations and raises no
\* ConvergenceError.
BelowTolerance(dX) == RLt(MaxAbs(dX), Tolerance)

Theorem_C22 ==
    /\ [](/\ iteration <= max_iterations
          /\ error # "ConvergenceError"
          /\ pc = "returned" =>
                /\ error = "none"
                /\ result[1].iteration = iteration
                /\ 1 <= result[1].iteration /\ result[1].iteration <= max_iterations
                /\ BelowTolerance(loc.dX) \/ result[1].iteration = max_iterations)
    /\ [][/\ (pc = "loop" /\ pc' = "loop") =>
                 (~BelowTolerance(loc'.dX) /\ iteration' < max_iterations)
          /\ (pc = "loop" /\ pc' = "after_loop") =>
                 (BelowTolerance(loc'.dX) \/ iteration' = max_iterations)
          /\ (pc = "loop" /\ pc' = "raised") => error' # "ConvergenceError"
          /\ pc = "after_loop" => pc' = "returned"]_vars

\* adjust returned after its only pass although the corrections of that pass
\* were not below the tolerance
Witness_C22 ==
    /\ pc = "returned" /\ error = "none"
    /\ result[1].iteration = max_iterations
    /\ ~BelowTolerance(loc.dX)

----------------------------------------------------------------------------
\* C23: right after LineAdjuster.adjust succeeded on a line with at least one
\* setup, a nonzero total distance, a height difference on every setup and
\* totals equal to those derived from its setups, the line's
\* total_height_diff is end_benchmark.height - start_benchmark.height and the
\* intermediate height of the last setup's to_point is the end benchmark's
\* height.
TotalsFromSetups(ln) ==
    /\ ln.total_distance = SumOver(ln.setups, SetupDist)
    /\ ln.total_height_diff = RSumSeq(HeightDiffs(ln.setups))

Theorem_C23 ==
    /\ Did("adjust") /\ line_error = "none"
    /\ Len(LastOp.before.setups) >= 1
    /\ LastOp.before.total_distance # R(0)
    /\ \A i \in 1..Len(LastOp.before.setups) : LastOp.before.setups[i].height_diff # None
    /\ TotalsFromSetups(LastOp.before)
    => /\ line.total_height_diff =
             RSub(LastOp.arg.end_benchmark.height, LastOp.arg.start_benchmark.height)
       /\ adjustment_info # None
       /\ adjustment_info[1].intermediate_heights[line.setups[Len(line.setups)].to_point]
             = LastOp.arg.end_benchmark.height

\* a line of two measured setups with a misclosure, adjusted between its
\* two benchmarks
Witness_C23 ==
    /\ Did("adjust") /\ line_error = "none"
    /\ Len(LastOp.before.setups) = 2
    /\ LastOp.before.total_distance # R(0)
    /\ \A i \in 1..2 : LastOp.before.setups[i].height_diff # None
    /\ TotalsFromSetups(LastOp.before)
    /\ LastOp.before.total_height_diff # line.total_height_diff
    /\ adjustment_info # None

----------------------------------------------------------------------------
\* C24: every loop returned by find_all_loops whose lines' height differences
\* agree with one assignment of heights to its points (each line's
\* total_height_diff = H(end_point) - H(start_point)) has misclosure 0,
\* whichever way each line is stored relative to the direction in which the
\* loop goes through it.
TraversedDiff(ls, loop, k) ==
    IF ls[loop.lines[k]].start_point = loop.points[k]
    THEN ls[loop.lines[k]].total_height_diff
    ELSE RNeg(ls[loop.lines[k]].total_height_diff)

\* the height of points[k] relative to points[1], carried along the loop
RECURSIVE HeightAlong(_, _, _)
HeightAlong(ls, loop, k) ==
    IF k = 1 THEN R(0)
    ELSE RAdd(HeightAlong(ls, loop, k - 1), TraversedDiff(ls, loop, k - 1))

ConsistentHeights(ls, loop) ==
    \A i, j \in 1..Len(loop.points) :
        loop.points[i] = loop.points[j] => HeightAlong(ls, loop, i) = HeightAlong(ls, loop, j)

Claim_C24 ==
    found_loops # None =>
        \A k \in 1..Len(found_loops) :
            ConsistentHeights(net_lines, found_loops[k])
                => found_loops[k].misclosure = R(0)

----------------------------------------------------------------------------
\* C25: every loop returned by find_all_loops is a simple cycle: points has
\* one more entry than lines, its first and last entries are the start point,
\* the start point occurs nowhere else in points and no other point occurs
\* twice, also in networks with two or more lines between the same two
\* points.
SimpleCyclePoints(loop) ==
    /\ Len(loop.points) = Len(loop.lines) + 1
    /\ loop.points[1] = loop.points[Len(loop.points)]
    /\ \A i \in 2..(Len(loop.points) - 1) : loop.points[i] # loop.points[1]
    /\ \A i, j \in 2..(Len(loop.points) - 1) : loop.points[i] = loop.points[j] => i = j

Claim_C25 ==
    found_loops # None =>
        \A k \in 1..Len(found_loops) : SimpleCyclePoints(found_loops[k])

----------------------------------------------------------------------------
\* C26: in adjust_loops, for every loop the B row has +1 exactly at the
\* loop's in-range line indices and 0 elsewhere, and w[loop] is the sum of
\* the observed height differences of exactly the lines whose B entry is +1
\* (w = B l), also when a loop lists an index twice or lists an out-of-range
\* index.
ObservedDiffs == Eager([i \in 1..Len(lines) |-> lines[i].total_height_diff])

Claim_C26 ==
    cond_pc \notin {"idle", "start"} =>
        \A c \in 1..Len(loops) :
            /\ Len(cond_loc.B[c]) = Len(lines)
            /\ \A i \in 1..Len(lines) :
                  cond_loc.B[c][i] = IF \E k \in 1..Len(loops[c]) : loops[c][k] = i - 1
                                     THEN R(1) ELSE R(0)
            /\ cond_loc.w[c] = Dot(cond_loc.B[c], ObservedDiffs)

----------------------------------------------------------------------------
\* C27: the residuals mapping of the result returned by
\* LeastSquaresAdjuster.adjust, and of the one returned by adjust_loops, has
\* exactly one entry per input observation, also when two observations have
\* the same from_point and to_point.
Claim_C27 ==
    /\ pc = "returned" =>
          Cardinality(DOMAIN result[1].residuals) = Len(observations)
    /\ cond_pc = "returned" =>
          Cardinality(DOMAIN cond_result[1].residuals) = Len(lines)

----------------------------------------------------------------------------
\* C28: apply_merge(candidate, target_list) on a valid candidate of two or
\* more lines completes; after it every source line of the candidate has
\* is_used = False and the excluded-from-merge status, the merged line has
\* been appended to target_list once and merge_history has one entry more.
Claim_C28 ==
    [][(/\ n_calls' = n_calls + 1
        /\ coord_call'.op = "apply_merge"
        /\ coord_call'.arg[1].is_valid
        /\ Len(coord_call'.arg[1].lines) >= 2)
       => /\ coord_call'.err = "none"
          /\ \A k \in 1..Len(coord_call'.arg[1].lines) :
                /\ ~coord_lines'[coord_call'.arg[1].lines[k]].is_used
                /\ coord_lines'[coord_call'.arg[1].lines[k]].status = "EXCLUDED_FROM_MERGE"
          /\ Len(coord_call'.ret) = 1
          /\ target_list' = Append(target_list, coord_call'.ret[1])
          /\ Len(merge_history') = Len(merge_history) + 1]_vars

----------------------------------------------------------------------------
\* C29: calculate_line_totals returns the sum over the setups of
\* (distance_back + distance_fore)/2 and the sum over the setups of
\* height_diff when present and otherwise backsight - foresight, also for
\* setups with a backsight or foresight reading of 0.0.
ReadingsDiff(setup) ==
    IF setup.height_diff # None THEN setup.height_diff
    ELSE RSub(setup.backsight_reading, setup.foresight_reading)

Claim_C29 ==
    coord_call.op = "calculate_line_totals" =>
        /\ coord_call.ret[1] = SumOver(coord_call.arg[1].setups, SetupDist)
        /\ coord_call.ret[2] = SumOver(coord_call.arg[1].setups, ReadingsDiff)

----------------------------------------------------------------------------
\* C30: in the adjustment_info returned by LineAdjuster.adjust, computed_dh
\* is the line's measured total height difference before the corrections
\* were applied, so that misclosure_m = computed_dh - expected_dh.
Claim_C30 ==
    (Did("adjust") /\ line_error = "none" /\ adjustment_info # None) =>
        /\ adjustment_info[1].computed_dh = LastOp.before.total_height_diff
        /\ adjustment_info[1].misclosure_m =
              RSub(adjustment_info[1].computed_dh, adjustment_info[1].expected_dh)

====
